---- MODULE Spec2Model ----
(***************************************************************************)
(* Model of the file-backed planning server (server/src/routes) and of its *)
(* capacity forecast, GET /api/capacity/forecast.                          *)
(*                                                                         *)
(* An ISO date is kept as the string the code keeps: a sequence of         *)
(* characters, a digit d written d and "-" written Dash, which sorts below *)
(* every digit as U+002D sorts below U+0030.  A JavaScript Date at local   *)
(* midnight is the number of days since 1970-01-01.                        *)
(***************************************************************************)
EXTENDS Integers, Sequences, FiniteSets, TLC

VARIABLES staffFile, assignFile, rulesFile, req, resp, days,
          reads,    \* the data files the request in service has read
          disk,     \* what is on disk under each data file's path
          boot,     \* where the start-up creation of the data files stands
          last,     \* the forecast exchange before the one in service
          actFile,  \* data/activities.json
          fsys,     \* the data directory as the operating system keeps it
          procs,    \* the requests in flight, each at its await
          drag      \* the staff plan's drag state, and what its release sent

vars == <<staffFile, assignFile, rulesFile, req, resp, days, reads, disk, boot, last,
          actFile, fsys, procs, drag>>

----------------------------------------------------------------------------
(* Bounds of the model *)

MaxStaff == 2
MaxAssign == 2
MaxPosts == 3
MaxActs == 2
MaxActId == 3
MaxEdits == 1

----------------------------------------------------------------------------
(* Strings and optional values *)

Dash == 0 - 1

\* an optional field: <<>> when the field is absent, <<v>> when present
Absent == <<>>
Some(v) == <<v>>
Has(o) == o # <<>>
Val(o) == o[1]

IsDigit(c) == c \in 0..9

Pad2(n) == IF n < 10 THEN <<0, n>> ELSE <<n \div 10, n % 10>>

RECURSIVE DecStr(_)
DecStr(n) == IF n < 10 THEN <<n>> ELSE DecStr(n \div 10) \o <<n % 10>>

\* the text "YYYY-MM-DD" of a request or a stored record
ISO(y, m, d) ==
    <<(y \div 1000) % 10, (y \div 100) % 10, (y \div 10) % 10, y % 10>>
        \o <<Dash>> \o Pad2(m) \o <<Dash>> \o Pad2(d)

\* a < b, a <= b on strings: by code unit at the first difference, a proper
\* prefix first
StrLT(a, b) ==
    LET n    == IF Len(a) < Len(b) THEN Len(a) ELSE Len(b)
        diff == {i \in 1..n : a[i] # b[i]}
    IN  IF diff = {} THEN Len(a) < Len(b)
        ELSE LET k == CHOOSE i \in diff : \A j \in diff : i <= j
             IN  a[k] < b[k]

StrLE(a, b) == a = b \/ StrLT(a, b)

\* Number(t) for the digits t = s[lo..hi] (Number("") is 0)
RECURSIVE NumberAt(_, _, _)
NumberAt(s, lo, hi) ==
    IF hi < lo THEN 0
    ELSE IF hi = lo THEN s[lo]
    ELSE IF hi = lo + 1 THEN 10 * s[lo] + s[hi]
    ELSE 10 * NumberAt(s, lo, hi - 1) + s[hi]

----------------------------------------------------------------------------
(* The Date object: days since 1970-01-01, proleptic Gregorian calendar *)

DaysFromCivil(y, m, d) ==
    LET yy  == IF m <= 2 THEN y - 1 ELSE y
        era == yy \div 400
        yoe == yy - era * 400
        mp  == IF m > 2 THEN m - 3 ELSE m + 9
        doy == (153 * mp + 2) \div 5 + d - 1
        doe == yoe * 365 + yoe \div 4 - yoe \div 100 + doy
    IN  era * 146097 + doe - 719468

CivilFromDays(n) ==
    LET z   == n + 719468
        era == z \div 146097
        doe == z - era * 146097
        yoe == (doe - doe \div 1460 + doe \div 36524 - doe \div 146096) \div 365
        doy == doe - (365 * yoe + yoe \div 4 - yoe \div 100)
        mp  == (5 * doy + 2) \div 153
        d   == doy - (153 * mp + 2) \div 5 + 1
        m   == IF mp < 10 THEN mp + 3 ELSE mp - 9
        y   == yoe + era * 400 + (IF m <= 2 THEN 1 ELSE 0)
    IN  [y |-> y, m |-> m, d |-> d]

\* new Date(y, monthIndex, d): a year 0..99 means 1900 + y, and a month
\* index or a day outside the calendar rolls over
NewDate(y, mi, d) ==
    LET fy == IF y \in 0..99 THEN 1900 + y ELSE y
        Y  == fy + mi \div 12
        M  == mi % 12
    IN  DaysFromCivil(Y, M + 1, 1) + d - 1

\* Date.prototype.getDay: 0 = Sunday .. 6 = Saturday
getDay(n) == (n + 4) % 7

\* const [y, m, d] = s.split("-").map(Number); new Date(y, m - 1, d).
\* Every string the handlers parse is a year, "-", two digits, "-", two
\* digits (isoDate, or the output of toISO), so the three fields of the split
\* are read at their places.
parseISO(s) ==
    NewDate(NumberAt(s, 1, Len(s) - 6),
            NumberAt(s, Len(s) - 4, Len(s) - 3) - 1,
            NumberAt(s, Len(s) - 1, Len(s)))

toISO(n) ==
    LET c == CivilFromDays(n)
    IN  DecStr(c.y) \o <<Dash>> \o Pad2(c.m) \o <<Dash>> \o Pad2(c.d)

addDaysISO(iso, n) == toISO(parseISO(iso) + n)

weekdayFromISO(iso) == ((getDay(parseISO(iso)) + 6) % 7) + 1

startOfISOWeek(iso) ==
    LET d   == parseISO(iso)
        day == (getDay(d) + 6) % 7
    IN  toISO(d - day)

startOfMonthISO(iso) ==
    LET d == parseISO(iso)
        c == CivilFromDays(d)
    IN  toISO(d - c.d + 1)

----------------------------------------------------------------------------
(* Capacity rules (capacityRulesSchema) and the forecast's lookups *)

Range(f) == {f[i] : i \in DOMAIN f}

defaultRules ==
    [defaultHoursPerDay |-> 8,
     workdays           |-> <<1, 2, 3, 4, 5>>,
     staffOverrides     |-> <<>>,
     exceptions         |-> <<>>]

\* Map.prototype.set
MapSet(m, k, v) == [x \in (DOMAIN m) \cup {k} |-> IF x = k THEN v ELSE m[x]]

\* for (const s of staff) staffHours.set(s.id, rules.defaultHoursPerDay)
RECURSIVE seedHours(_, _, _)
seedHours(m, staff, rules) ==
    IF staff = <<>> THEN m
    ELSE seedHours(MapSet(m, Head(staff).id, rules.defaultHoursPerDay),
                   Tail(staff), rules)

\* for (const s of staff) staffWorkdays.set(s.id, new Set(rules.workdays))
RECURSIVE seedWorkdays(_, _, _)
seedWorkdays(m, staff, rules) ==
    IF staff = <<>> THEN m
    ELSE seedWorkdays(MapSet(m, Head(staff).id, Range(rules.workdays)),
                      Tail(staff), rules)

\* if (o.hoursPerDay !== undefined) staffHours.set(o.staffId, o.hoursPerDay)
RECURSIVE overrideHours(_, _)
overrideHours(m, ovs) ==
    IF ovs = <<>> THEN m
    ELSE overrideHours(MapSet(m, Head(ovs).staffId, Head(ovs).hoursPerDay),
                       Tail(ovs))

\* if (o.workdays) staffWorkdays.set(o.staffId, new Set(o.workdays))
RECURSIVE overrideWorkdays(_, _)
overrideWorkdays(m, ovs) ==
    IF ovs = <<>> THEN m
    ELSE overrideWorkdays(
             IF Has(Head(ovs).workdays)
             THEN MapSet(m, Head(ovs).staffId, Range(Val(Head(ovs).workdays)))
             ELSE m,
             Tail(ovs))

\* as staffHours, the overrides never applied
staffHours_noOverride(staff, rules) == seedHours(<<>>, staff, rules)

staffHours(staff, rules) ==
    overrideHours(seedHours(<<>>, staff, rules), rules.staffOverrides)

\* as staffWorkdays, the overrides' workdays never applied
staffWorkdays_noOverride(staff, rules) == seedWorkdays(<<>>, staff, rules)

staffWorkdays(staff, rules) ==
    overrideWorkdays(seedWorkdays(<<>>, staff, rules), rules.staffOverrides)

\* as excHours, with e.hours || 8
excHours_orDefault(e) == IF Has(e.hours) /\ Val(e.hours) # 0 THEN Val(e.hours) ELSE 8

\* const hrs = e.hours ?? 0
excHours(e) == IF Has(e.hours) THEN Val(e.hours) ELSE 0

\* the else branch of if (e.staffId): globalExc.set(e.date, hrs)
RECURSIVE globalExcOf(_, _)
globalExcOf(m, excs) ==
    IF excs = <<>> THEN m
    ELSE globalExcOf(
             IF Has(Head(excs).staffId) THEN m
             ELSE MapSet(m, Head(excs).date, excHours(Head(excs))),
             Tail(excs))

\* the then branch: perStaffExc.get(e.date).set(e.staffId, hrs)
RECURSIVE perStaffExcOf(_, _)
perStaffExcOf(m, excs) ==
    IF excs = <<>> THEN m
    ELSE LET e     == Head(excs)
             inner == IF e.date \in DOMAIN m THEN m[e.date] ELSE <<>>
         IN  perStaffExcOf(
                 IF Has(e.staffId)
                 THEN MapSet(m, e.date, MapSet(inner, Val(e.staffId), excHours(e)))
                 ELSE m,
                 Tail(excs))

\* as globalExc, the entries taken from the last listed to the first, so that
\* the first listed of a date is the one kept
globalExc_firstListed(rules) ==
    globalExcOf(<<>>, [i \in DOMAIN rules.exceptions |->
                          rules.exceptions[Len(rules.exceptions) + 1 - i]])

globalExc(rules) == globalExcOf(<<>>, rules.exceptions)

perStaffExc(rules) == perStaffExcOf(<<>>, rules.exceptions)

\* the lookups the handler builds once per request
Lookups(staff, rules) ==
    [hours    |-> staffHours(staff, rules),
     workdays |-> staffWorkdays(staff, rules),
     global   |-> globalExc(rules),
     perStaff |-> perStaffExc(rules)]

----------------------------------------------------------------------------
(* The per-day loop *)

\* const canWork = staffWorkdays.get(s.id)?.has(wd) ?? false
canWork(L, id, wd) == id \in DOMAIN L.workdays /\ wd \in L.workdays[id]

\* as availHours, the global exception applied after the per-staff one
availHours_globalLast(L, rules, id, d) ==
    IF ~canWork(L, id, weekdayFromISO(d)) THEN 0
    ELSE LET h0 == IF id \in DOMAIN L.hours THEN L.hours[id]
                   ELSE rules.defaultHoursPerDay
             h1 == IF d \in DOMAIN L.perStaff /\ id \in DOMAIN L.perStaff[d]
                   THEN L.perStaff[d][id]
                   ELSE h0
         IN  IF d \in DOMAIN L.global THEN L.global[d] ELSE h1

\* as availHours, without the test of canWork
availHours_noGate(L, rules, id, d) ==
    LET h0 == IF id \in DOMAIN L.hours THEN L.hours[id]
              ELSE rules.defaultHoursPerDay
        h1 == IF d \in DOMAIN L.global THEN L.global[d] ELSE h0
    IN  IF d \in DOMAIN L.perStaff /\ id \in DOMAIN L.perStaff[d]
        THEN L.perStaff[d][id]
        ELSE h1

\* what one pass of the loop over staff adds to avail on day d
availHours(L, rules, id, d) ==
    IF ~canWork(L, id, weekdayFromISO(d)) THEN 0
    ELSE LET h0 == IF id \in DOMAIN L.hours THEN L.hours[id]
                   ELSE rules.defaultHoursPerDay
             h1 == IF d \in DOMAIN L.global THEN L.global[d] ELSE h0
         IN  IF d \in DOMAIN L.perStaff /\ id \in DOMAIN L.perStaff[d]
             THEN L.perStaff[d][id]
             ELSE h1

RECURSIVE availOn(_, _, _, _)
availOn(L, rules, staff, d) ==
    IF staff = <<>> THEN 0
    ELSE availHours(L, rules, Head(staff).id, d) + availOn(L, rules, Tail(staff), d)

\* as neededHours, the exceptions of the day applied as for available
neededHours_withExceptions(L, rules, a, d) ==
    IF StrLE(a.start, d) /\ StrLE(d, a.end)
    THEN LET h0 == IF a.staffId \in DOMAIN L.hours THEN L.hours[a.staffId]
                   ELSE rules.defaultHoursPerDay
             h1 == IF d \in DOMAIN L.global THEN L.global[d] ELSE h0
         IN  IF d \in DOMAIN L.perStaff /\ a.staffId \in DOMAIN L.perStaff[d]
             THEN L.perStaff[d][a.staffId]
             ELSE h1
    ELSE 0

\* as neededHours, counted only on the staff member's working days
neededHours_gated(L, rules, a, d) ==
    IF StrLE(a.start, d) /\ StrLE(d, a.end) /\ canWork(L, a.staffId, weekdayFromISO(d))
    THEN IF a.staffId \in DOMAIN L.hours THEN L.hours[a.staffId]
         ELSE rules.defaultHoursPerDay
    ELSE 0

\* as neededHours, without the test of a.end
neededHours_noEnd(L, rules, a, d) ==
    IF StrLE(a.start, d)
    THEN IF a.staffId \in DOMAIN L.hours THEN L.hours[a.staffId]
         ELSE rules.defaultHoursPerDay
    ELSE 0

\* as neededHours, nothing needed from a staff member on a day they have an
\* exception of their own
neededHours_ptoOff(L, rules, a, d) ==
    IF StrLE(a.start, d) /\ StrLE(d, a.end)
    THEN IF d \in DOMAIN L.perStaff /\ a.staffId \in DOMAIN L.perStaff[d]
         THEN 0
         ELSE IF a.staffId \in DOMAIN L.hours THEN L.hours[a.staffId]
         ELSE rules.defaultHoursPerDay
    ELSE 0

\* what one assignment adds to need on day d
neededHours(L, rules, a, d) ==
    IF StrLE(a.start, d) /\ StrLE(d, a.end)
    THEN IF a.staffId \in DOMAIN L.hours THEN L.hours[a.staffId]
         ELSE rules.defaultHoursPerDay
    ELSE 0

\* as neededOn, each staff member counted once a day
RECURSIVE neededOn_oncePerStaff(_, _, _, _)
neededOn_oncePerStaff(L, rules, assignments, d) ==
    IF assignments = <<>> THEN 0
    ELSE (IF \E j \in 2..Len(assignments) :
                 /\ assignments[j].staffId = Head(assignments).staffId
                 /\ StrLE(assignments[j].start, d) /\ StrLE(d, assignments[j].end)
          THEN 0
          ELSE neededHours(L, rules, Head(assignments), d))
             + neededOn_oncePerStaff(L, rules, Tail(assignments), d)

RECURSIVE neededOn(_, _, _, _)
neededOn(L, rules, assignments, d) ==
    IF assignments = <<>> THEN 0
    ELSE neededHours(L, rules, Head(assignments), d)
             + neededOn(L, rules, Tail(assignments), d)

dayRow(L, rules, staff, assignments, d) ==
    [date      |-> d,
     available |-> availOn(L, rules, staff, d),
     needed    |-> neededOn(L, rules, assignments, d)]

\* for (let d = from; d <= to; d = addDaysISO(d, 1)): the values d takes
RECURSIVE dayLoop(_, _)
dayLoop(d, to) ==
    IF StrLE(d, to) THEN <<d>> \o dayLoop(addDaysISO(d, 1), to) ELSE <<>>

\* as buildDays, the range widened back to the Monday of from's week
buildDays_fromMonday(staff, assignments, rules, from, to) ==
    CHOOSE rows \in
        { [i \in 1..Len(ds) |-> dayRow(L, rules, staff, assignments, ds[i])] :
              L \in {Lookups(staff, rules)},
              ds \in {dayLoop(startOfISOWeek(from), to)} } : TRUE

\* days.push({ date: d, available: avail, needed: need }) for each of them
buildDays(staff, assignments, rules, from, to) ==
    CHOOSE rows \in
        { [i \in 1..Len(ds) |-> dayRow(L, rules, staff, assignments, ds[i])] :
              L \in {Lookups(staff, rules)}, ds \in {dayLoop(from, to)} } : TRUE

----------------------------------------------------------------------------
(* Bucketize *)

bucketKey(bucket, date) ==
    IF bucket = "day" THEN date
    ELSE IF bucket = "week" THEN startOfISOWeek(date)
    ELSE startOfMonthISO(date)

\* as pushAt, with = in place of +=
pushAt_overwrite(points, key, r) ==
    IF \E i \in 1..Len(points) : points[i].bucketStart = key
    THEN [i \in 1..Len(points) |->
             IF points[i].bucketStart = key
             THEN [bucketStart |-> key, available |-> r.available, needed |-> r.needed]
             ELSE points[i]]
    ELSE Append(points,
                [bucketStart |-> key, available |-> r.available, needed |-> r.needed])

\* const p = points.get(key) ?? {...}; p.available += available;
\* p.needed += needed; points.set(key, p).  The Map keeps its keys in
\* insertion order.
pushAt(points, key, r) ==
    IF \E i \in 1..Len(points) : points[i].bucketStart = key
    THEN [i \in 1..Len(points) |->
             IF points[i].bucketStart = key
             THEN [bucketStart |-> key,
                   available   |-> points[i].available + r.available,
                   needed      |-> points[i].needed + r.needed]
             ELSE points[i]]
    ELSE Append(points,
                [bucketStart |-> key, available |-> r.available, needed |-> r.needed])

push(points, bucket, r) ==
    CHOOSE out \in { pushAt(p, key, r) :
                         p \in {points}, key \in {bucketKey(bucket, r.date)} } : TRUE

\* for (const r of days) push(r.date, r.available, r.needed)
RECURSIVE pushAll(_, _, _)
pushAll(rows, bucket, n) ==
    IF n = 0 THEN <<>> ELSE push(pushAll(rows, bucket, n - 1), bucket, rows[n])

\* Array.prototype.sort((a, b) => a.bucketStart.localeCompare(b.bucketStart)):
\* a stable sort, here by insertion from the back
RECURSIVE insertPoint(_, _)
insertPoint(sorted, p) ==
    IF sorted = <<>> THEN <<p>>
    ELSE IF StrLT(p.bucketStart, sorted[Len(sorted)].bucketStart)
    THEN Append(insertPoint(SubSeq(sorted, 1, Len(sorted) - 1), p), sorted[Len(sorted)])
    ELSE Append(sorted, p)

RECURSIVE sortPoints(_, _)
sortPoints(ps, n) ==
    IF n = 0 THEN <<>>
    ELSE CHOOSE out \in { insertPoint(sorted, ps[n]) :
                              sorted \in {sortPoints(ps, n - 1)} } : TRUE

\* as bucketize, the points map kept by the module from one request to the
\* next instead of created by each request
RECURSIVE pushAllOnto(_, _, _, _)
pushAllOnto(kept, rows, bucket, n) ==
    IF n = 0 THEN kept ELSE push(pushAllOnto(kept, rows, bucket, n - 1), bucket, rows[n])

bucketize_sharedPoints(rows, bucket) ==
    CHOOSE out \in { sortPoints(ps, Len(ps)) :
                         ps \in {pushAllOnto(IF req.op = "forecast" /\ resp.status = 200
                                             THEN resp.body.points ELSE <<>>,
                                             rows, bucket, Len(rows))} } : TRUE

bucketize(rows, bucket) ==
    CHOOSE out \in { sortPoints(ps, Len(ps)) :
                         ps \in {pushAll(rows, bucket, Len(rows))} } : TRUE

----------------------------------------------------------------------------
(* Request validation *)

\* isoDate: /^\d{4}-\d{2}-\d{2}$/
isoDate(s) ==
    /\ Len(s) = 10
    /\ \A i \in {1, 2, 3, 4, 6, 7, 9, 10} : IsDigit(s[i])
    /\ s[5] = Dash /\ s[8] = Dash

Buckets == {"day", "week", "month"}

\* as forecastQueryOK, bucket any string
forecastQueryOK_anyBucket(q) ==
    /\ Has(q.from) /\ isoDate(Val(q.from))
    /\ Has(q.to) /\ isoDate(Val(q.to))

\* forecastQuerySchema.safeParse({from, to, bucket: req.query.bucket ?? "week"})
forecastQueryOK(q) ==
    /\ Has(q.from) /\ isoDate(Val(q.from))
    /\ Has(q.to) /\ isoDate(Val(q.to))
    /\ (Has(q.bucket) => Val(q.bucket) \in Buckets)

bucketOf(q) == IF Has(q.bucket) THEN Val(q.bucket) ELSE "week"

\* posInt: z.number().int().gt(0)
posInt(n) == n > 0

\* weekday: z.number().int().min(1).max(7)
weekday(w) == w >= 1 /\ w <= 7

weekdays(ws) == \A i \in DOMAIN ws : weekday(ws[i])

\* an element of staffOverrides
overrideOK(o) ==
    /\ posInt(o.staffId)
    /\ o.hoursPerDay >= 0
    /\ (Has(o.workdays) => weekdays(Val(o.workdays)))

\* as exceptionOK, hours any number
exceptionOK_anyHours(e) ==
    /\ isoDate(e.date)
    /\ (Has(e.staffId) => posInt(Val(e.staffId)))

\* an element of exceptions
exceptionOK(e) ==
    /\ isoDate(e.date)
    /\ (Has(e.hours) => Val(e.hours) >= 0)
    /\ (Has(e.staffId) => posInt(Val(e.staffId)))

\* capacityRulesSchema.safeParse(body).success
capacityRulesOK(body) ==
    /\ (Has(body.defaultHoursPerDay) => Val(body.defaultHoursPerDay) >= 0)
    /\ (Has(body.workdays) => weekdays(Val(body.workdays)))
    /\ (Has(body.staffOverrides) =>
            \A i \in DOMAIN Val(body.staffOverrides) : overrideOK(Val(body.staffOverrides)[i]))
    /\ (Has(body.exceptions) =>
            \A i \in DOMAIN Val(body.exceptions) : exceptionOK(Val(body.exceptions)[i]))

\* capacityRulesSchema.safeParse(body).data: a missing field takes its default
capacityRulesData(body) ==
    [defaultHoursPerDay |-> IF Has(body.defaultHoursPerDay)
                            THEN Val(body.defaultHoursPerDay) ELSE 8,
     workdays           |-> IF Has(body.workdays)
                            THEN Val(body.workdays) ELSE <<1, 2, 3, 4, 5>>,
     staffOverrides     |-> IF Has(body.staffOverrides)
                            THEN Val(body.staffOverrides) ELSE <<>>,
     exceptions         |-> IF Has(body.exceptions)
                            THEN Val(body.exceptions) ELSE <<>>]

\* a rules document as JSON text gives it back: every field present
RawRules(doc) ==
    [defaultHoursPerDay |-> Some(doc.defaultHoursPerDay),
     workdays           |-> Some(doc.workdays),
     staffOverrides     |-> Some(doc.staffOverrides),
     exceptions         |-> Some(doc.exceptions)]

----------------------------------------------------------------------------
(* The requests the model sends *)

Mon0101 == ISO(2024, 1, 1)
Tue0102 == ISO(2024, 1, 2)
Fri0105 == ISO(2024, 1, 5)
Sat0106 == ISO(2024, 1, 6)
Sun0107 == ISO(2024, 1, 7)
Wed1225 == ISO(2024, 12, 25)

\* a full week by day, a span that crosses a year, a month and two week
\* boundaries by week and by month, a single day, from > to, and no from
CrossFrom == ISO(2023, 12, 31)
CrossTo == ISO(2024, 1, 8)

Query(from, to, bucket) == [from |-> Some(from), to |-> Some(to), bucket |-> Some(bucket)]

Queries ==
    { Query(Mon0101, Sun0107, "day"),
      Query(CrossFrom, CrossTo, "week"),
      Query(CrossFrom, CrossTo, "month"),
      Query(Wed1225, Wed1225, "day"),
      Query(Sun0107, Mon0101, "week"),
      [from |-> Absent, to |-> Some(Sun0107), bucket |-> Absent] }

StaffBodies == { [name |-> "A", id |-> i] : i \in {Absent, Some(2)} }

AssignBodies ==
    { [staffId |-> 1, projectId |-> 1, start |-> Mon0101, end |-> Fri0105, id |-> Absent],
      [staffId |-> 2, projectId |-> 1, start |-> Fri0105, end |-> ISO(2024, 1, 8), id |-> Absent] }

OverrideLists ==
    LET o1 == [staffId |-> 1, hoursPerDay |-> 6, workdays |-> Some(<<2, 6>>)]
        o2 == [staffId |-> 1, hoursPerDay |-> 4, workdays |-> Absent]
        o3 == [staffId |-> 2, hoursPerDay |-> 3, workdays |-> Some(<<6, 7>>)]
    IN  { <<>>, <<o2, o3>>, <<o1, o2>> }

ExceptionLists ==
    LET g0 == [date |-> Tue0102, hours |-> Absent,  staffId |-> Absent]
        g1 == [date |-> Sat0106, hours |-> Some(1), staffId |-> Absent]
        g5 == [date |-> Tue0102, hours |-> Some(5), staffId |-> Absent]
        p0 == [date |-> Tue0102, hours |-> Some(0), staffId |-> Some(1)]
        p2 == [date |-> Tue0102, hours |-> Some(2), staffId |-> Some(1)]
        s2 == [date |-> Sat0106, hours |-> Some(2), staffId |-> Some(1)]
        x0 == [date |-> Wed1225, hours |-> Some(0), staffId |-> Absent]
    IN  { <<>>, <<g1, g5, p0>>, <<p2, g0>>, <<x0>>, <<p0, p2, s2>> }

RulesBodies ==
    { [defaultHoursPerDay |-> b[1], workdays |-> b[2],
       staffOverrides |-> o, exceptions |-> e] :
          b \in { <<8, <<1, 2, 3, 4, 5>> >>, <<5, <<6, 7>> >> },
          o \in OverrideLists, e \in ExceptionLists }

----------------------------------------------------------------------------
(* Collections: getAll sorts what it reads *)

RECURSIVE insertById(_, _)
insertById(sorted, x) ==
    IF sorted = <<>> THEN <<x>>
    ELSE IF x.id < Head(sorted).id THEN <<x>> \o sorted
    ELSE <<Head(sorted)>> \o insertById(Tail(sorted), x)

\* items.sort((a, b) => a.id - b.id)
RECURSIVE sortById(_)
sortById(items) ==
    IF items = <<>> THEN <<>>
    ELSE insertById(sortById(SubSeq(items, 1, Len(items) - 1)), items[Len(items)])

\* (a.staffId - b.staffId) || (a.projectId - b.projectId) || a.start.localeCompare(b.start)
assignBefore(a, b) ==
    IF a.staffId # b.staffId THEN a.staffId < b.staffId
    ELSE IF a.projectId # b.projectId THEN a.projectId < b.projectId
    ELSE StrLT(a.start, b.start)

RECURSIVE insertAssign(_, _)
insertAssign(sorted, x) ==
    IF sorted = <<>> THEN <<x>>
    ELSE IF assignBefore(x, Head(sorted)) THEN <<x>> \o sorted
    ELSE <<Head(sorted)>> \o insertAssign(Tail(sorted), x)

RECURSIVE sortAssign(_)
sortAssign(items) ==
    IF items = <<>> THEN <<>>
    ELSE insertAssign(sortAssign(SubSeq(items, 1, Len(items) - 1)), items[Len(items)])

\* items.reduce((m, s) => Math.max(m, s.id), 0)
RECURSIVE maxId(_)
maxId(items) ==
    IF items = <<>> THEN 0
    ELSE LET m == maxId(Tail(items))
         IN  IF Head(items).id > m THEN Head(items).id ELSE m

\* A JavaScript number is a double: every integer up to 2^53 is one, and from
\* 2^53 to 2^54 only the even ones are.  TLC's integers end below 2^31, so
\* the ids next to 2^53 are written by their distance from it: TwoTo53 + k
\* stands for 2^53 + k, and every id the model uses is either far below
\* TwoTo53 or next to it.
TwoTo53 == 1000000000

\* Number.MAX_SAFE_INTEGER, 2^53 - 1
MaxSafeInteger == TwoTo53 - 1

\* m + 1 on doubles: exact up to 2^53; above, m + 1 lies half way between two
\* doubles and is rounded to the one whose significand is even
plusOne(m) ==
    IF m < TwoTo53 THEN m + 1
    ELSE IF (m - TwoTo53) % 4 = 0 THEN m
    ELSE m + 2

nextId(items, suggested) ==
    IF Has(suggested) THEN Val(suggested) ELSE plusOne(maxId(items))

idTaken(items, suggested) ==
    Has(suggested) /\ \E i \in 1..Len(items) : items[i].id = Val(suggested)

----------------------------------------------------------------------------
(* The handlers *)

DataFiles == {"staff", "assignments", "rules"}

NoExchange == [req |-> [op |-> "none"], resp |-> [status |-> 0, body |-> [error |-> "none"]]]

\* a start-up task that has finished, and all three of them finished
Finished == [file |-> "none", pc |-> "done"]

Tasks == {"capacity", "staff", "assignments"}

BootDone == [t \in Tasks |-> Finished]

\* the names of the data directory, each with the number of its file (0 when
\* there is none), and the text of each file.  The specifications that serve
\* one request at a time keep the data in staffFile, assignFile, rulesFile
\* and actFile and leave this directory alone.
DataDirectory == [dir |-> [n \in {"file", "tmp"} |-> 0], node |-> <<>>]

\* the two requests the server may have in flight, none of them started
Requests == {1, 2}

Idle == [pc |-> "idle"]

NoRequests == [p \in Requests |-> Idle]

\* the staff plan as it mounts: useState<AssignmentT[]>([]),
\* useState<DragState>(null), useState<number|null>(null), nothing sent yet
\* and no assignment replaced yet
NoDrag == [bars |-> <<>>, state |-> Absent, saving |-> Absent, sent |-> Absent, edits |-> 0]

\* the server once the data files have been created
Init ==
    /\ staffFile = <<>>
    /\ assignFile = <<>>
    /\ rulesFile = defaultRules
    /\ req = [op |-> "none"]
    /\ resp = [status |-> 0, body |-> [error |-> "none"]]
    /\ days = <<>>
    /\ reads = {}
    /\ disk = [f \in DataFiles |-> "written"]
    /\ boot = BootDone
    /\ last = NoExchange
    /\ actFile = <<>>
    /\ fsys = DataDirectory
    /\ procs = NoRequests
    /\ drag = NoDrag

\* staffCreateSchema: { name: z.string().min(1), id: posInt.optional() }
staffCreateOK(body) == body.name # "" /\ (Has(body.id) => posInt(Val(body.id)))

\* the handler of POST /api/staff
createStaff(body) ==
    /\ req' = [op |-> "postStaff", body |-> body]
    /\ days' = <<>>
    /\ IF ~staffCreateOK(body)
       THEN /\ resp' = [status |-> 400, body |-> [error |-> "validation"]]
            /\ reads' = {}
            /\ UNCHANGED staffFile
       ELSE /\ reads' = {"staff"}
            /\ LET items == sortById(staffFile)
               IN  IF idTaken(items, body.id)
                   THEN /\ resp' = [status |-> 409, body |-> [error |-> "id already exists"]]
                        /\ UNCHANGED staffFile
                   ELSE LET next == [id |-> nextId(items, body.id), name |-> body.name]
                        IN  /\ staffFile' = Append(items, next)
                            /\ resp' = [status |-> 201, body |-> next]
    /\ UNCHANGED <<assignFile, rulesFile, disk>>

\* POST /api/staff, while the collection is below the bound of the model
PostStaff(body) == Len(staffFile) < MaxStaff /\ createStaff(body)

\* the handler of POST /api/assignments, for bodies assignmentCreateSchema
\* lets through: the id, when suggested, is tested again by posInt
createAssignment(body) ==
    /\ req' = [op |-> "postAssignment", body |-> body]
    /\ days' = <<>>
    /\ reads' = {"assignments"}
    /\ LET items == sortAssign(assignFile)
       IN  IF Has(body.id) /\ ~posInt(Val(body.id))
           THEN /\ resp' = [status |-> 400, body |-> [error |-> "Invalid id"]]
                /\ UNCHANGED assignFile
           ELSE IF idTaken(items, body.id)
           THEN /\ resp' = [status |-> 409, body |-> [error |-> "id already exists"]]
                /\ UNCHANGED assignFile
           ELSE LET next == [id |-> nextId(items, body.id), staffId |-> body.staffId,
                             projectId |-> body.projectId,
                             start |-> body.start, end |-> body.end]
                IN  /\ assignFile' = Append(items, next)
                    /\ resp' = [status |-> 201, body |-> next]
    /\ UNCHANGED <<staffFile, rulesFile, disk>>

\* POST /api/assignments, while the collection is below the bound of the model
PostAssignment(body) == Len(assignFile) < MaxAssign /\ createAssignment(body)

\* as PutRules, a field missing from the body keeping its stored value
PutRules_merge(body) ==
    /\ req' = [op |-> "putRules", body |-> body]
    /\ days' = <<>>
    /\ reads' = {"rules"}
    /\ IF ~capacityRulesOK(body)
       THEN /\ resp' = [status |-> 400, body |-> [error |-> "validation"]]
            /\ UNCHANGED <<rulesFile, disk>>
       ELSE \E data \in {[f \in DOMAIN body |->
                              IF Has(body[f]) THEN Val(body[f]) ELSE rulesFile[f]]} :
                /\ rulesFile' = data
                /\ disk' = [disk EXCEPT !["rules"] = "written"]
                /\ resp' = [status |-> 200, body |-> data]
    /\ UNCHANGED <<staffFile, assignFile>>

\* PUT /api/capacity/rules: the body is the request's JSON, any of whose
\* fields may be missing; what is stored and answered is the parsed data
PutRules(body) ==
    /\ req' = [op |-> "putRules", body |-> body]
    /\ days' = <<>>
    /\ reads' = {}
    /\ IF ~capacityRulesOK(body)
       THEN /\ resp' = [status |-> 400, body |-> [error |-> "validation"]]
            /\ UNCHANGED <<rulesFile, disk>>
       ELSE \E data \in {capacityRulesData(body)} :
                /\ rulesFile' = data
                /\ disk' = [disk EXCEPT !["rules"] = "written"]
                /\ resp' = [status |-> 200, body |-> data]
    /\ UNCHANGED <<staffFile, assignFile>>

\* GET /api/capacity/rules.  readJson throws when the file is missing
\* (ENOENT) or still empty (JSON.parse("")); nothing in the async handler
\* catches it, so the request gets Express's error answer or, where Express
\* does not see a rejected promise, no answer at all.
GetRules ==
    /\ req' = [op |-> "getRules"]
    /\ days' = <<>>
    /\ reads' = {"rules"}
    /\ IF disk["rules"] = "written"
       THEN \E raw \in {RawRules(rulesFile)} :
                resp' = [status |-> 200,
                         body   |-> IF capacityRulesOK(raw)
                                    THEN capacityRulesData(raw) ELSE defaultRules]
       ELSE \E status \in {500, 0} :
                resp' = [status |-> status, body |-> [error |-> "readJson"]]
    /\ UNCHANGED <<staffFile, assignFile, rulesFile, disk>>

\* the three reads of the forecast, in the order of the code: readJson throws
\* on a file that is missing (ENOENT) or still empty (JSON.parse("")), and
\* capacityRulesSchema.parse throws on a stored document that does not
\* validate
readThrows ==
    \/ \E f \in DataFiles : disk[f] # "written"
    \/ ~capacityRulesOK(RawRules(rulesFile))

\* the files whose read the request has started when it throws
readBeforeThrow ==
    IF disk["staff"] # "written" THEN {"staff"}
    ELSE IF disk["assignments"] # "written" THEN {"staff", "assignments"}
    ELSE {"staff", "assignments", "rules"}

\* as Forecast, without the from > to refusal
Forecast_noRangeCheck(q) ==
    /\ req' = [op |-> "forecast", query |-> q]
    /\ IF ~forecastQueryOK(q)
       THEN /\ resp' = [status |-> 400, body |-> [error |-> "validation"]]
            /\ days' = <<>>
            /\ reads' = {}
       ELSE IF readThrows
       THEN /\ reads' = readBeforeThrow
            /\ days' = <<>>
            /\ \E status \in {500, 0} :
                   resp' = [status |-> status, body |-> [error |-> "thrown"]]
       ELSE \E rows \in {buildDays(staffFile, assignFile, rulesFile,
                                   Val(q.from), Val(q.to))} :
                /\ reads' = {"staff", "assignments", "rules"}
                /\ days' = rows
                /\ resp' = [status |-> 200,
                            body   |-> [bucket |-> bucketOf(q),
                                        points |-> bucketize(rows, bucketOf(q))]]
    /\ UNCHANGED <<staffFile, assignFile, rulesFile, disk>>

\* as Forecast, the rules being the document the module held when it was
\* loaded instead of the one read from the file by each request
Forecast_rulesAtLoad(q) ==
    /\ req' = [op |-> "forecast", query |-> q]
    /\ IF ~forecastQueryOK(q)
       THEN /\ resp' = [status |-> 400, body |-> [error |-> "validation"]]
            /\ days' = <<>>
            /\ reads' = {}
       ELSE IF StrLT(Val(q.to), Val(q.from))
       THEN /\ resp' = [status |-> 400, body |-> [error |-> "from must be <= to"]]
            /\ days' = <<>>
            /\ reads' = {}
       ELSE IF readThrows
       THEN /\ reads' = readBeforeThrow
            /\ days' = <<>>
            /\ \E status \in {500, 0} :
                   resp' = [status |-> status, body |-> [error |-> "thrown"]]
       ELSE \E rows \in {buildDays(staffFile, assignFile, defaultRules,
                                   Val(q.from), Val(q.to))} :
                /\ reads' = {"staff", "assignments"}
                /\ days' = rows
                /\ resp' = [status |-> 200,
                            body   |-> [bucket |-> bucketOf(q),
                                        points |-> bucketize(rows, bucketOf(q))]]
    /\ UNCHANGED <<staffFile, assignFile, rulesFile, disk>>

\* GET /api/capacity/forecast.  Nothing in the async handler catches what
\* the reads throw: as in GetRules, the request gets Express's error answer
\* or none.
Forecast(q) ==
    /\ req' = [op |-> "forecast", query |-> q]
    /\ IF ~forecastQueryOK(q)
       THEN /\ resp' = [status |-> 400, body |-> [error |-> "validation"]]
            /\ days' = <<>>
            /\ reads' = {}
       ELSE IF StrLT(Val(q.to), Val(q.from))
       THEN /\ resp' = [status |-> 400, body |-> [error |-> "from must be <= to"]]
            /\ days' = <<>>
            /\ reads' = {}
       ELSE IF readThrows
       THEN /\ reads' = readBeforeThrow
            /\ days' = <<>>
            /\ \E status \in {500, 0} :
                   resp' = [status |-> status, body |-> [error |-> "thrown"]]
       ELSE \E rows \in {buildDays(staffFile, assignFile, rulesFile,
                                   Val(q.from), Val(q.to))} :
                /\ reads' = {"staff", "assignments", "rules"}
                /\ days' = rows
                /\ resp' = [status |-> 200,
                            body   |-> [bucket |-> bucketOf(q),
                                        points |-> bucketize(rows, bucketOf(q))]]
    /\ UNCHANGED <<staffFile, assignFile, rulesFile, disk>>

Next ==
    \/ \E body \in StaffBodies : PostStaff(body) /\ UNCHANGED <<boot, last, actFile, fsys, procs, drag>>
    \/ \E body \in AssignBodies : PostAssignment(body) /\ UNCHANGED <<boot, last, actFile, fsys, procs, drag>>
    \/ \E body \in RulesBodies : PutRules(RawRules(body)) /\ UNCHANGED <<boot, last, actFile, fsys, procs, drag>>
    \/ \E q \in Queries : Forecast(q) /\ UNCHANGED <<boot, last, actFile, fsys, procs, drag>>

Spec == Init /\ [][Next]_vars

----------------------------------------------------------------------------
(* The resolver of the specification, read off the rules document itself.   *)
(* Dates here are calendar fields, taken from a YYYY-MM-DD text.            *)

ForecastDone == req.op = "forecast" /\ resp.status = 200

Last(S) == CHOOSE i \in S : \A j \in S : j <= i

yearOf(s) == 1000 * s[1] + 100 * s[2] + 10 * s[3] + s[4]
monthOf(s) == 10 * s[6] + s[7]
dayOf(s) == 10 * s[9] + s[10]

\* calendar order of two dates
dateNum(s) == 10000 * yearOf(s) + 100 * monthOf(s) + dayOf(s)

\* weekdayOf: Monday = 1 .. Sunday = 7 (Sakamoto's congruence)
weekdayOf(s) ==
    LET t   == <<0, 3, 2, 5, 0, 3, 5, 1, 4, 6, 2, 4>>
        y   == IF monthOf(s) < 3 THEN yearOf(s) - 1 ELSE yearOf(s)
        dow == (y + y \div 4 - y \div 100 + y \div 400 + t[monthOf(s)] + dayOf(s)) % 7
    IN  IF dow = 0 THEN 7 ELSE dow

overridesOf(rules, id) ==
    {i \in DOMAIN rules.staffOverrides : rules.staffOverrides[i].staffId = id}

workdayOverridesOf(rules, id) ==
    {i \in overridesOf(rules, id) : Has(rules.staffOverrides[i].workdays)}

staffScoped(rules, id, d) ==
    {i \in DOMAIN rules.exceptions :
        rules.exceptions[i].date = d /\ rules.exceptions[i].staffId = Some(id)}

globalOn(rules, d) ==
    {i \in DOMAIN rules.exceptions :
        rules.exceptions[i].date = d /\ rules.exceptions[i].staffId = Absent}

hoursOrZero(e) == IF e.hours = Absent THEN 0 ELSE e.hours[1]

\* the staff member's nominal daily hours: the override, else the default
nominalHours(rules, id) ==
    IF overridesOf(rules, id) = {} THEN rules.defaultHoursPerDay
    ELSE rules.staffOverrides[Last(overridesOf(rules, id))].hoursPerDay

\* effectiveHours: staff-scoped exception, global exception, override, default
effectiveHours(rules, id, d) ==
    IF staffScoped(rules, id, d) # {}
    THEN hoursOrZero(rules.exceptions[Last(staffScoped(rules, id, d))])
    ELSE IF globalOn(rules, d) # {}
    THEN hoursOrZero(rules.exceptions[Last(globalOn(rules, d))])
    ELSE nominalHours(rules, id)

workdaySet(rules, id) ==
    IF workdayOverridesOf(rules, id) = {} THEN Range(rules.workdays)
    ELSE Range(rules.staffOverrides[Last(workdayOverridesOf(rules, id))].workdays[1])

worksOn(rules, id, d) == weekdayOf(d) \in workdaySet(rules, id)

spans(a, d) == dateNum(a.start) <= dateNum(d) /\ dateNum(d) <= dateNum(a.end)

\* the sum of f[1..n]
RECURSIVE SumTo(_, _)
SumTo(f, n) == IF n = 0 THEN 0 ELSE SumTo(f, n - 1) + f[n]

Sum(f) == SumTo(f, Len(f))

----------------------------------------------------------------------------
(* Availability: precedence of exceptions, overrides and the default *)

\* C1: a staff member who works on a date of the range and has a
\* staff-scoped exception on that date contributes exactly that exception's
\* hours (0 when omitted; the last listed one when several are listed) to
\* available, whatever the global exception, the override and the default;
\* with one staff member that is the day's available.
C1_StaffExceptionWins ==
    ForecastDone =>
        \A L \in {Lookups(staffFile, rulesFile)} :
        \A i \in DOMAIN staffFile, k \in DOMAIN days :
        \A id \in {staffFile[i].id}, d \in {days[k].date} :
            (worksOn(rulesFile, id, d) /\ staffScoped(rulesFile, id, d) # {}) =>
                \A h \in {hoursOrZero(rulesFile.exceptions[Last(staffScoped(rulesFile, id, d))])} :
                    /\ availHours(L, rulesFile, id, d) = h
                    /\ (Len(staffFile) = 1 => days[k].available = h)

\* a staff-scoped exception of 0 hours beats a global exception of the same
\* date and an override, both with positive hours
C1_Witness ==
    /\ ForecastDone
    /\ Len(staffFile) = 1
    /\ \E k \in DOMAIN days :
           /\ worksOn(rulesFile, staffFile[1].id, days[k].date)
           /\ staffScoped(rulesFile, staffFile[1].id, days[k].date) # {}
           /\ globalOn(rulesFile, days[k].date) # {}
           /\ overridesOf(rulesFile, staffFile[1].id) # {}
           /\ effectiveHours(rulesFile, staffFile[1].id, days[k].date) = 0
           /\ nominalHours(rulesFile, staffFile[1].id) > 0
           /\ hoursOrZero(rulesFile.exceptions[Last(globalOn(rulesFile, days[k].date))]) > 0
           /\ days[k].available = 0

\* C2: a staff member who works on a date with no staff-scoped exception of
\* theirs but with a global exception contributes the global exception's
\* hours (0 when omitted), whatever the override and the default.
C2_GlobalExceptionWins ==
    ForecastDone =>
        \A L \in {Lookups(staffFile, rulesFile)} :
        \A i \in DOMAIN staffFile, k \in DOMAIN days :
        \A id \in {staffFile[i].id}, d \in {days[k].date} :
            (/\ worksOn(rulesFile, id, d)
             /\ staffScoped(rulesFile, id, d) = {}
             /\ globalOn(rulesFile, d) # {}) =>
                \A h \in {hoursOrZero(rulesFile.exceptions[Last(globalOn(rulesFile, d))])} :
                    /\ availHours(L, rulesFile, id, d) = h
                    /\ (Len(staffFile) = 1 => days[k].available = h)

\* the holiday: a global exception of 0 hours on 2024-12-25, one staff member
\* with 8 hours a day who works on Wednesdays, and available 0 on that day
C2_Witness ==
    /\ ForecastDone
    /\ Len(staffFile) = 1
    /\ Len(days) = 1
    /\ days[1].date = Wed1225
    /\ globalOn(rulesFile, Wed1225) # {}
    /\ rulesFile.exceptions[Last(globalOn(rulesFile, Wed1225))].hours = Some(0)
    /\ nominalHours(rulesFile, staffFile[1].id) = 8
    /\ worksOn(rulesFile, staffFile[1].id, Wed1225)
    /\ days[1].available = 0

\* C3: a staff member who works on a date with no exception at all on it
\* contributes the hoursPerDay of their override (the last listed), and
\* rules.defaultHoursPerDay when they have none.
C3_OverrideElseDefault ==
    ForecastDone =>
        \A L \in {Lookups(staffFile, rulesFile)} :
        \A i \in DOMAIN staffFile, k \in DOMAIN days :
        \A id \in {staffFile[i].id}, d \in {days[k].date} :
            (/\ worksOn(rulesFile, id, d)
             /\ staffScoped(rulesFile, id, d) = {}
             /\ globalOn(rulesFile, d) = {}) =>
                \A h \in {IF overridesOf(rulesFile, id) = {}
                          THEN rulesFile.defaultHoursPerDay
                          ELSE rulesFile.staffOverrides[Last(overridesOf(rulesFile, id))].hoursPerDay} :
                    /\ availHours(L, rulesFile, id, d) = h
                    /\ (Len(staffFile) = 1 => days[k].available = h)

\* an override's hours, different from the default, counted on a working day
\* without exceptions
C3_Witness ==
    /\ ForecastDone
    /\ Len(staffFile) = 1
    /\ overridesOf(rulesFile, staffFile[1].id) # {}
    /\ \E k \in DOMAIN days :
           /\ worksOn(rulesFile, staffFile[1].id, days[k].date)
           /\ staffScoped(rulesFile, staffFile[1].id, days[k].date) = {}
           /\ globalOn(rulesFile, days[k].date) = {}
           /\ days[k].available = nominalHours(rulesFile, staffFile[1].id)
           /\ days[k].available # rulesFile.defaultHoursPerDay

\* C4: available on each date of the range is the sum, over the members of
\* the staff collection for whom the date is a working day, of their
\* effective hours; a member for whom it is not a working day adds 0, also
\* when an exception with positive hours is on that date.
C4_AvailableIsSumOverWorking ==
    ForecastDone =>
        \A L \in {Lookups(staffFile, rulesFile)} :
        \A k \in DOMAIN days :
        \A d \in {days[k].date} :
            /\ \A f \in {[i \in DOMAIN staffFile |->
                             IF worksOn(rulesFile, staffFile[i].id, d)
                             THEN effectiveHours(rulesFile, staffFile[i].id, d)
                             ELSE 0]} :
                   days[k].available = Sum(f)
            /\ \A i \in DOMAIN staffFile :
                   ~worksOn(rulesFile, staffFile[i].id, d) =>
                       availHours(L, rulesFile, staffFile[i].id, d) = 0

\* two staff members on a date with a positive global exception: the one who
\* does not work that weekday adds nothing, the other adds the exception's
\* hours
C4_Witness ==
    /\ ForecastDone
    /\ Len(staffFile) = 2
    /\ \E k \in DOMAIN days :
           /\ ~worksOn(rulesFile, staffFile[1].id, days[k].date)
           /\ effectiveHours(rulesFile, staffFile[1].id, days[k].date) > 0
           /\ globalOn(rulesFile, days[k].date) # {}
           /\ worksOn(rulesFile, staffFile[2].id, days[k].date)
           /\ days[k].available = effectiveHours(rulesFile, staffFile[2].id, days[k].date)
           /\ days[k].available > 0

\* C5: a staff member counts as working on a date exactly when the date's
\* weekday (Monday = 1 .. Sunday = 7) is in the workdays of their override
\* (the last one that lists workdays), and in rules.workdays when no override
\* of theirs lists workdays; the exceptions play no part.
C5_WorksOnByWorkdays ==
    ForecastDone =>
        \A L \in {Lookups(staffFile, rulesFile)} :
        \A i \in DOMAIN staffFile, k \in DOMAIN days :
        \A id \in {staffFile[i].id}, d \in {days[k].date} :
            /\ weekdayFromISO(d) = weekdayOf(d)
            /\ canWork(L, id, weekdayFromISO(d)) <=> worksOn(rulesFile, id, d)
            /\ (Len(staffFile) = 1 /\ ~worksOn(rulesFile, id, d)) => days[k].available = 0

\* a Saturday that the override's workdays hold and rules.workdays do not,
\* with an exception on it, counted; and for the same staff member a weekday
\* of rules.workdays that the override drops, not counted
C5_Witness ==
    /\ ForecastDone
    /\ Len(staffFile) = 1
    /\ workdayOverridesOf(rulesFile, staffFile[1].id) # {}
    /\ \E k \in DOMAIN days :
           /\ weekdayOf(days[k].date) = 6
           /\ 6 \notin Range(rulesFile.workdays)
           /\ 6 \in workdaySet(rulesFile, staffFile[1].id)
           /\ globalOn(rulesFile, days[k].date) # {}
           /\ days[k].available > 0
    /\ \E k \in DOMAIN days :
           /\ weekdayOf(days[k].date) \in Range(rulesFile.workdays)
           /\ weekdayOf(days[k].date) \notin workdaySet(rulesFile, staffFile[1].id)
           /\ days[k].available = 0

----------------------------------------------------------------------------
(* Demand *)

\* the sum of f over the finite set S
RECURSIVE SumSet(_, _)
SumSet(S, f) ==
    IF S = {} THEN 0
    ELSE LET x == CHOOSE y \in S : TRUE
         IN  f[x] + SumSet(S \ {x}, f)

\* C6 as stated: needed on each date is the sum, over the assignments whose
\* span holds the date, of effectiveHours of the assignment's staff member on
\* that date (staff-scoped exception, global exception, override, default).
C6_NeededByEffectiveHours ==
    ForecastDone =>
        \A k \in DOMAIN days :
        \A d \in {days[k].date} :
        \A f \in {[j \in DOMAIN assignFile |->
                      IF spans(assignFile[j], d)
                      THEN effectiveHours(rulesFile, assignFile[j].staffId, d)
                      ELSE 0]} :
            days[k].needed = Sum(f)

\* C6 amended: needed on each date is the sum, over the assignments whose
\* span holds the date, of the nominal hours of the assignment's staff member
\* (the hoursPerDay of their last override, else the default): no exception
\* changes it, and neither does the date being a working day or not.
C6_NeededByNominalHours ==
    ForecastDone =>
        \A k \in DOMAIN days :
        \A d \in {days[k].date} :
        \A f \in {[j \in DOMAIN assignFile |->
                      IF spans(assignFile[j], d)
                      THEN nominalHours(rulesFile, assignFile[j].staffId)
                      ELSE 0]} :
            days[k].needed = Sum(f)

\* one assignment over a date on which its staff member has an exception of
\* fewer hours: needed keeps the nominal hours
C6_Witness ==
    /\ ForecastDone
    /\ Len(assignFile) = 1
    /\ \E k \in DOMAIN days :
           /\ spans(assignFile[1], days[k].date)
           /\ staffScoped(rulesFile, assignFile[1].staffId, days[k].date) # {}
           /\ effectiveHours(rulesFile, assignFile[1].staffId, days[k].date)
                  < nominalHours(rulesFile, assignFile[1].staffId)
           /\ days[k].needed = nominalHours(rulesFile, assignFile[1].staffId)

\* the overload scenario of C7
C7_Scenario ==
    /\ ForecastDone
    /\ Len(staffFile) = 1
    /\ rulesFile = defaultRules
    /\ Len(assignFile) = 2
    /\ \A j \in DOMAIN assignFile :
           assignFile[j].staffId = staffFile[1].id /\ spans(assignFile[j], Tue0102)
    /\ \E k \in DOMAIN days : days[k].date = Tue0102

\* C7: every assignment over a date adds its staff member's hours to needed
\* on its own: needed is, summed over the staff members, the number of their
\* assignments over the date times their hours; one staff member with 8
\* hours, Monday to Friday, and two assignments over a Tuesday give
\* needed 16 and available 8 on it.
C7_EachAssignmentCounts ==
    ForecastDone =>
        \A k \in DOMAIN days :
        \A d \in {days[k].date} :
            /\ \A ids \in {{assignFile[j].staffId : j \in DOMAIN assignFile}} :
               \A f \in {[id \in ids |->
                             Cardinality({j \in DOMAIN assignFile :
                                 assignFile[j].staffId = id /\ spans(assignFile[j], d)})
                                 * nominalHours(rulesFile, id)]} :
                   days[k].needed = SumSet(ids, f)
            /\ (C7_Scenario /\ d = Tue0102) =>
                   (days[k].needed = 16 /\ days[k].available = 8)

C7_Witness ==
    /\ C7_Scenario
    /\ \E k \in DOMAIN days :
           days[k].date = Tue0102 /\ days[k].needed = 16 /\ days[k].available = 8

\* the rules with rules.workdays replaced by w and, when v is present, the
\* workdays of every override replaced by v
withWorkdays(rules, w, v) ==
    [rules EXCEPT
        !.workdays = w,
        !.staffOverrides =
            [i \in DOMAIN rules.staffOverrides |->
                [rules.staffOverrides[i] EXCEPT
                    !.workdays = IF v = Absent THEN @ ELSE v[1]]]]

AltWorkdays == { <<>>, <<6, 7>>, <<1, 2, 3, 4, 5, 6, 7>> }

AltOverrideWorkdays == {Absent} \cup {Some(Absent)} \cup {Some(Some(w)) : w \in AltWorkdays}

\* C8: needed does not depend on any workday set: with rules.workdays and the
\* overrides' workdays replaced, needed is what the forecast returned on
\* every date, and an assignment over a date that is no working day of its
\* staff member adds that member's hours all the same.
C8_NeededIgnoresWorkdays ==
    ForecastDone =>
        /\ \A w \in AltWorkdays, v \in AltOverrideWorkdays :
           \A alt \in {withWorkdays(rulesFile, w, v)} :
           \A L \in {Lookups(staffFile, alt)} :
           \A k \in DOMAIN days :
               neededOn(L, alt, assignFile, days[k].date) = days[k].needed
        /\ \A k \in DOMAIN days, j \in DOMAIN assignFile :
               (/\ spans(assignFile[j], days[k].date)
                /\ ~worksOn(rulesFile, assignFile[j].staffId, days[k].date)) =>
                   days[k].needed >= nominalHours(rulesFile, assignFile[j].staffId)

\* an assignment of a member of the staff over a date that is no working day
\* of theirs: nothing available, the member's hours needed
C8_Witness ==
    /\ ForecastDone
    /\ Len(staffFile) = 1
    /\ Len(assignFile) = 1
    /\ assignFile[1].staffId = staffFile[1].id
    /\ \E k \in DOMAIN days :
           /\ spans(assignFile[1], days[k].date)
           /\ ~worksOn(rulesFile, staffFile[1].id, days[k].date)
           /\ days[k].available = 0
           /\ days[k].needed = nominalHours(rulesFile, staffFile[1].id)
           /\ days[k].needed > 0

\* the end-to-end example of C9
C9_Scenario ==
    /\ staffFile = <<[id |-> 1, name |-> "A"]>>
    /\ rulesFile = defaultRules
    /\ assignFile = <<[id |-> 1, staffId |-> 1, projectId |-> 1,
                       start |-> Mon0101, end |-> Fri0105]>>
    /\ req = [op |-> "forecast", query |-> Query(Mon0101, Sun0107, "day")]

\* C9 as stated: seven points, 2024-01-01 to 2024-01-05 with available 8 and
\* needed 8, 2024-01-06 and 2024-01-07 with available 0 and needed 8.
C9_ExampleAsStated ==
    C9_Scenario =>
        /\ resp.status = 200
        /\ resp.body.bucket = "day"
        /\ Len(resp.body.points) = 7
        /\ \A i \in 1..7 :
               resp.body.points[i] =
                   [bucketStart |-> ISO(2024, 1, i),
                    available   |-> IF i <= 5 THEN 8 ELSE 0,
                    needed      |-> 8]

\* C9 amended: seven points, 2024-01-01 to 2024-01-05 with available 8 and
\* needed 8, 2024-01-06 and 2024-01-07 with available 0 and needed 0 (the
\* assignment ends on 2024-01-05).
C9_ExampleAmended ==
    C9_Scenario =>
        /\ resp.status = 200
        /\ resp.body.bucket = "day"
        /\ Len(resp.body.points) = 7
        /\ \A i \in 1..7 :
               resp.body.points[i] =
                   [bucketStart |-> ISO(2024, 1, i),
                    available   |-> IF i <= 5 THEN 8 ELSE 0,
                    needed      |-> IF i <= 5 THEN 8 ELSE 0]

C9_Witness == C9_Scenario /\ resp.status = 200 /\ Len(resp.body.points) = 7

----------------------------------------------------------------------------
(* Buckets *)

totalAvailable(ps) == Sum([i \in DOMAIN ps |-> ps[i].available])

totalNeeded(ps) == Sum([i \in DOMAIN ps |-> ps[i].needed])

\* C10: the available of the returned points add up to the available of the
\* days of the range, and so do the needed; the same holds for the points of
\* each of the three granularities over the same days, so the three give the
\* same two totals.
C10_BucketsConserveSums ==
    ForecastDone =>
        \A ta \in {totalAvailable(days)}, tn \in {totalNeeded(days)} :
            /\ \A ps \in {resp.body.points} :
                   totalAvailable(ps) = ta /\ totalNeeded(ps) = tn
            /\ \A b \in Buckets :
               \A ps \in {bucketize(days, b)} :
                   totalAvailable(ps) = ta /\ totalNeeded(ps) = tn

\* a week forecast with fewer points than days, a point that holds several
\* days, and hours on both sides
C10_Witness ==
    /\ ForecastDone
    /\ resp.body.bucket = "week"
    /\ Len(resp.body.points) > 1
    /\ Len(resp.body.points) < Len(days)
    /\ \E i \in DOMAIN resp.body.points :
           /\ resp.body.points[i].available > 8
           /\ resp.body.points[i].needed > 8
           /\ \E k \in DOMAIN days :
                  /\ days[k].available > 0
                  /\ days[k].available < resp.body.points[i].available
    /\ totalAvailable(resp.body.points) = totalAvailable(days)
    /\ totalNeeded(resp.body.points) = totalNeeded(days)

----------------------------------------------------------------------------
(* The forecast over the edges of the calendar and of the query schema:    *)
(* the same server, asked for ranges around a leap day, below year 1000,   *)
(* in the years JavaScript reads as 19xx, and with queries the schema      *)
(* refuses.                                                                *)

\* "2024-3-01" and "2024-03-1x": not of the shape YYYY-MM-DD
Short0301 == <<2, 0, 2, 4, Dash, 3, Dash, 0, 1>>
Letter031x == <<2, 0, 2, 4, Dash, 0, 3, Dash, 1, 33>>

DateQueries ==
    { Query(ISO(2024, 3, 1), ISO(2024, 3, 10), "week"),
      Query(ISO(2024, 3, 1), ISO(2024, 3, 10), "month"),
      Query(ISO(2024, 3, 1), ISO(2024, 3, 10), "day"),
      Query(ISO(2024, 2, 29), ISO(2024, 2, 29), "day"),
      Query(ISO(2024, 2, 27), ISO(2024, 3, 2), "day"),
      [from |-> Some(ISO(2023, 2, 27)), to |-> Some(ISO(2023, 3, 1)), bucket |-> Absent],
      Query(ISO(999, 12, 31), ISO(1000, 1, 8), "week"),
      Query(ISO(999, 12, 31), ISO(1000, 1, 1), "month"),
      Query(ISO(999, 12, 30), ISO(999, 12, 31), "day"),
      Query(ISO(50, 6, 15), ISO(50, 6, 15), "week"),
      Query(ISO(9999, 12, 30), ISO(9999, 12, 30), "day"),
      Query(ISO(2024, 3, 10), ISO(2024, 3, 1), "day"),
      Query(ISO(1000, 1, 1), ISO(999, 12, 31), "week"),
      [from |-> Absent, to |-> Some(ISO(2024, 3, 10)), bucket |-> Some("day")],
      [from |-> Some(ISO(2024, 3, 1)), to |-> Absent, bucket |-> Absent],
      Query(Short0301, ISO(2024, 3, 10), "day"),
      Query(ISO(2024, 3, 1), Letter031x, "week"),
      Query(ISO(2024, 3, 1), ISO(2024, 3, 10), "year") }

DateAssignBodies ==
    { [staffId |-> 1, projectId |-> 1, start |-> ISO(2024, 3, 2), end |-> ISO(2024, 3, 5),
       id |-> Absent] }

\* the exchange in service becomes the one before
Shift == last' = [req |-> req, resp |-> resp]

DatesNext ==
    \/ \E body \in StaffBodies : PostStaff(body) /\ Shift /\ UNCHANGED <<boot, actFile, fsys, procs, drag>>
    \/ \E body \in DateAssignBodies : PostAssignment(body) /\ Shift /\ UNCHANGED <<boot, actFile, fsys, procs, drag>>
    \/ \E q \in DateQueries : Forecast(q) /\ Shift /\ UNCHANGED <<boot, actFile, fsys, procs, drag>>

SpecDates == Init /\ [][DatesNext]_vars

----------------------------------------------------------------------------
(* Calendar reading of a date text, whatever the width of its year *)

RECURSIVE decimalOf(_)
decimalOf(s) == IF s = <<>> THEN 0 ELSE 10 * decimalOf(SubSeq(s, 1, Len(s) - 1)) + s[Len(s)]

calYear(s) == decimalOf(SubSeq(s, 1, Len(s) - 6))
calMonth(s) == decimalOf(SubSeq(s, Len(s) - 4, Len(s) - 3))
calDay(s) == decimalOf(SubSeq(s, Len(s) - 1, Len(s)))

calNum(s) == 10000 * calYear(s) + 100 * calMonth(s) + calDay(s)

\* the request in service is a forecast that was answered with points
Answered == req.op = "forecast" /\ resp.status = 200

fromOf == Val(req.query.from)
toOf == Val(req.query.to)

----------------------------------------------------------------------------
(* Order of the points *)

\* C11: the points of a forecast are in strictly ascending calendar order of
\* bucketStart, so no two points have the same bucketStart, for every bucket
\* granularity and every valid range.
C11_PointsAscending ==
    Answered =>
        \A i, j \in DOMAIN resp.body.points :
            i < j => calNum(resp.body.points[i].bucketStart)
                         < calNum(resp.body.points[j].bucketStart)

----------------------------------------------------------------------------
(* The calendar, counted in days from 0001-01-01 (day 1, a Monday) *)

isLeap(y) == (y % 4 = 0 /\ y % 100 # 0) \/ y % 400 = 0

rataDie(y, m, d) ==
    365 * (y - 1) + (y - 1) \div 4 - (y - 1) \div 100 + (y - 1) \div 400
        + (367 * m - 362) \div 12
        + (IF m <= 2 THEN 0 ELSE IF isLeap(y) THEN 0 - 1 ELSE 0 - 2)
        + d

\* the day number of a date text
dayNumber(s) == rataDie(calYear(s), calMonth(s), calDay(s))

\* Monday = 1 .. Sunday = 7
isoWeekday(s) == ((dayNumber(s) + 6) % 7) + 1

\* the day number on which the bucket of date d starts
bucketStartDay(bucket, d) ==
    IF bucket = "day" THEN dayNumber(d)
    ELSE IF bucket = "week" THEN dayNumber(d) - (isoWeekday(d) - 1)
    ELSE rataDie(calYear(d), calMonth(d), 1)

\* the days of the range that belong to the point
daysOfPoint(p) ==
    {k \in DOMAIN days :
        bucketStartDay(resp.body.bucket, days[k].date) = dayNumber(p.bucketStart)}

\* C12: each day of the range is added to exactly one point, the one whose
\* bucketStart is the day itself (bucket day), the Monday on or before it
\* (bucket week) or the first of its month (bucket month); a point holds the
\* hours of exactly the days with that key, so the bucketStart of a week point
\* is a Monday and that of a month point a first of month.
C12_BucketStartOfEachDay ==
    Answered =>
        \A ps \in {resp.body.points} :
            /\ \A k \in DOMAIN days :
                   Cardinality({i \in DOMAIN ps : k \in daysOfPoint(ps[i])}) = 1
            /\ \A i \in DOMAIN ps :
                   /\ resp.body.bucket = "week" => isoWeekday(ps[i].bucketStart) = 1
                   /\ resp.body.bucket = "month" => calDay(ps[i].bucketStart) = 1
                   /\ daysOfPoint(ps[i]) # {}
                   /\ ps[i].available = SumSet(daysOfPoint(ps[i]), [k \in DOMAIN days |-> days[k].available])
                   /\ ps[i].needed = SumSet(daysOfPoint(ps[i]), [k \in DOMAIN days |-> days[k].needed])

----------------------------------------------------------------------------
(* Buckets at the edges of the range *)

\* what the stored staff, assignments and rules give on a date
expectedAvailable(d) ==
    Sum([i \in DOMAIN staffFile |->
            IF worksOn(rulesFile, staffFile[i].id, d)
            THEN effectiveHours(rulesFile, staffFile[i].id, d) ELSE 0])

expectedNeeded(d) ==
    Sum([j \in DOMAIN assignFile |->
            IF spans(assignFile[j], d)
            THEN nominalHours(rulesFile, assignFile[j].staffId) ELSE 0])

\* the same over the days first..last of March 2024
marchAvailable(first, last_) ==
    Sum([n \in 1..(last_ - first + 1) |-> expectedAvailable(ISO(2024, 3, first + n - 1))])

marchNeeded(first, last_) ==
    Sum([n \in 1..(last_ - first + 1) |-> expectedNeeded(ISO(2024, 3, first + n - 1))])

C13_Scenario ==
    /\ Answered
    /\ req.query = Query(ISO(2024, 3, 1), ISO(2024, 3, 10), "week")

----------------------------------------------------------------------------
(* The day loop *)

\* C14: for calendar dates from <= to the day loop ends with exactly one row
\* for each calendar day from from to to, in ascending order, none skipped
\* and none repeated; from = to by day gives exactly one point.
C14_OneRowPerDay ==
    Answered =>
        /\ Len(days) = dayNumber(toOf) - dayNumber(fromOf) + 1
        /\ \A k \in DOMAIN days : dayNumber(days[k].date) = dayNumber(fromOf) + k - 1
        /\ (fromOf = toOf /\ resp.body.bucket = "day") => Len(resp.body.points) = 1

----------------------------------------------------------------------------
(* Refused queries *)

\* a text of the shape YYYY-MM-DD
dateShaped(s) ==
    /\ Len(s) = 10
    /\ \A i \in 1..10 : IF i \in {5, 8} THEN s[i] = Dash ELSE s[i] \in 0..9

isForecast == req.op = "forecast"

\* the answer carries no points
noPoints == "points" \notin DOMAIN resp.body

\* the query in service names two dates, the first later than the second
laterFrom ==
    /\ isForecast
    /\ Has(req.query.from) /\ dateShaped(fromOf)
    /\ Has(req.query.to) /\ dateShaped(toOf)
    /\ calNum(fromOf) > calNum(toOf)

\* C15: a forecast whose from is later than its to is answered 400, returns
\* no points and reads none of the staff, assignment and rules data.
C15_LaterFromRefused ==
    laterFrom => resp.status = 400 /\ noPoints /\ days = <<>> /\ reads = {}

\* refused for the range alone, with staff and assignments stored
C15_Witness ==
    /\ laterFrom
    /\ resp.status = 400
    /\ resp.body.error = "from must be <= to"
    /\ reads = {}
    /\ Len(staffFile) > 0 /\ Len(assignFile) > 0

\* the query in service lacks from or to, or has one that is not of the shape
\* YYYY-MM-DD, or names a bucket other than day, week, month
badQuery ==
    /\ isForecast
    /\ \/ ~Has(req.query.from)
       \/ ~Has(req.query.to)
       \/ Has(req.query.from) /\ ~dateShaped(fromOf)
       \/ Has(req.query.to) /\ ~dateShaped(toOf)
       \/ Has(req.query.bucket) /\ Val(req.query.bucket) \notin {"day", "week", "month"}

\* C16: a forecast whose from or to is missing or not of the shape
\* YYYY-MM-DD, or whose bucket is given and is not day, week or month, is
\* answered 400 with a validation-error body and returns no points.
C16_BadQueryRefused ==
    badQuery => resp.status = 400 /\ resp.body = [error |-> "validation"] /\ noPoints

\* each way of being refused has been seen: here the unknown bucket, with
\* from and to in order
C16_Witness ==
    /\ badQuery
    /\ Has(req.query.from) /\ dateShaped(fromOf)
    /\ Has(req.query.to) /\ dateShaped(toOf)
    /\ calNum(fromOf) <= calNum(toOf)
    /\ resp.status = 400
    /\ Len(staffFile) > 0

----------------------------------------------------------------------------
(* One request after another *)

\* the request in service repeats the forecast served just before it
repeated ==
    /\ isForecast
    /\ last.req.op = "forecast"
    /\ last.req.query = req.query

----------------------------------------------------------------------------
(* Start-up.  Importing the routes starts three tasks that create the data  *)
(* files: staff.ts and assignments.ts each ensure their own file, capacity  *)
(* ensures staff, assignments and rules one after the other.  The server    *)
(* listens without waiting for any of them.                                 *)

NoDocument == [missing |-> TRUE]

firstFile(t) == IF t = "capacity" THEN "staff" ELSE t

nextFile(t, f) ==
    IF t = "capacity" /\ f = "staff" THEN "assignments"
    ELSE IF t = "capacity" /\ f = "assignments" THEN "rules"
    ELSE "none"

\* the task goes on to its next file, or ends
advance(t) ==
    IF nextFile(t, boot[t].file) = "none" THEN Finished
    ELSE [file |-> nextFile(t, boot[t].file), pc |-> "access"]

BootStart == [t \in Tasks |-> [file |-> firstFile(t), pc |-> "access"]]

\* ensureDataFile: await fs.access(filePath), the catch taken when it fails
EnsureAccess(t) ==
    /\ boot[t].pc = "access"
    /\ boot' = [boot EXCEPT ![t] = IF disk[boot[t].file] = "missing"
                                   THEN [file |-> boot[t].file, pc |-> "open"]
                                   ELSE advance(t)]
    /\ UNCHANGED <<staffFile, assignFile, rulesFile, req, resp, days, reads, disk, last,
                   actFile, fsys, procs, drag>>

\* fs.writeFile, first half: the file is created, or cut to nothing
EnsureOpen(t) ==
    /\ boot[t].pc = "open"
    /\ boot' = [boot EXCEPT ![t] = [file |-> boot[t].file, pc |-> "write"]]
    /\ disk' = [disk EXCEPT ![boot[t].file] = "empty"]
    /\ rulesFile' = IF boot[t].file = "rules" THEN NoDocument ELSE rulesFile
    /\ staffFile' = IF boot[t].file = "staff" THEN <<>> ELSE staffFile
    /\ assignFile' = IF boot[t].file = "assignments" THEN <<>> ELSE assignFile
    /\ UNCHANGED <<req, resp, days, reads, last, actFile, fsys, procs, drag>>

defaultData(f) == IF f = "rules" THEN defaultRules ELSE <<>>

\* fs.writeFile, second half: JSON.stringify(defaultData) is in the file
EnsureWrite(t) ==
    /\ boot[t].pc = "write"
    /\ boot' = [boot EXCEPT ![t] = advance(t)]
    /\ disk' = [disk EXCEPT ![boot[t].file] = "written"]
    /\ rulesFile' = IF boot[t].file = "rules" THEN defaultData("rules") ELSE rulesFile
    /\ staffFile' = IF boot[t].file = "staff" THEN defaultData("staff") ELSE staffFile
    /\ assignFile' = IF boot[t].file = "assignments" THEN defaultData("assignments") ELSE assignFile
    /\ UNCHANGED <<req, resp, days, reads, last, actFile, fsys, procs, drag>>

\* the process has just started on an empty data directory
BootInit ==
    /\ staffFile = <<>>
    /\ assignFile = <<>>
    /\ rulesFile = NoDocument
    /\ req = [op |-> "none"]
    /\ resp = [status |-> 0, body |-> [error |-> "none"]]
    /\ days = <<>>
    /\ reads = {}
    /\ disk = [f \in DataFiles |-> "missing"]
    /\ boot = BootStart
    /\ last = NoExchange
    /\ actFile = <<>>
    /\ fsys = DataDirectory
    /\ procs = NoRequests
    /\ drag = NoDrag

BootNext ==
    \/ \E t \in Tasks : EnsureAccess(t)
    \/ \E t \in Tasks : EnsureOpen(t)
    \/ \E t \in Tasks : EnsureWrite(t)
    \/ GetRules /\ Shift /\ UNCHANGED <<boot, actFile, fsys, procs, drag>>

SpecBoot == BootInit /\ [][BootNext]_vars

\* C18: with no rules document stored by a PUT, GET /capacity/rules answers
\* 200 with the default document (8 hours, workdays 1 to 5, no overrides, no
\* exceptions), also when it is served before the start-up creation of the
\* rules file has completed.
C18_DefaultsWhenNothingStored ==
    req.op = "getRules" =>
        /\ resp.status = 200
        /\ resp.body = [defaultHoursPerDay |-> 8, workdays |-> <<1, 2, 3, 4, 5>>,
                        staffOverrides |-> <<>>, exceptions |-> <<>>]

----------------------------------------------------------------------------
(* The rules document: PUT and GET /api/capacity/rules on the running       *)
(* server, with bodies that leave fields out and bodies the schema refuses  *)

RulesBody(h, w, o, e) ==
    [defaultHoursPerDay |-> h, workdays |-> w, staffOverrides |-> o, exceptions |-> e]

ValidRawBodies ==
    LET ov1 == [staffId |-> 1, hoursPerDay |-> 6, workdays |-> Some(<<2, 6>>)]
        ov0 == [staffId |-> 2, hoursPerDay |-> 0, workdays |-> Absent]
        ove == [staffId |-> 1, hoursPerDay |-> 4, workdays |-> Some(<<>>)]
        ex1 == [date |-> Wed1225, hours |-> Absent, staffId |-> Absent]
        ex2 == [date |-> Tue0102, hours |-> Some(0), staffId |-> Some(1)]
    IN  { RulesBody(Absent, Absent, Absent, Absent),
          RulesBody(Some(6), Some(<<1, 2, 3>>), Some(<<ov1>>), Some(<<ex1>>)),
          RulesBody(Some(0), Absent, Absent, Absent),
          RulesBody(Absent, Some(<<7>>), Absent, Absent),
          RulesBody(Absent, Absent, Some(<<ov0, ov1>>), Absent),
          RulesBody(Absent, Absent, Absent, Some(<<ex2, ex1>>)),
          RulesBody(Some(10), Some(<<>>), Some(<<ove>>), Some(<<ex2>>)) }

InvalidRawBodies ==
    LET ov(id, h, w) == [staffId |-> id, hoursPerDay |-> h, workdays |-> w]
        ex(d, h, id) == [date |-> d, hours |-> h, staffId |-> id]
    IN  { RulesBody(Some(0 - 1), Absent, Absent, Absent),
          RulesBody(Some(3), Some(<<0>>), Absent, Absent),
          RulesBody(Some(3), Some(<<1, 8>>), Absent, Absent),
          RulesBody(Some(3), Absent, Some(<<ov(0, 4, Absent)>>), Absent),
          RulesBody(Some(3), Absent, Some(<<ov(1, 0 - 1, Absent)>>), Absent),
          RulesBody(Some(3), Absent, Some(<<ov(1, 4, Some(<<8>>))>>), Absent),
          RulesBody(Some(3), Absent, Absent, Some(<<ex(Short0301, Absent, Absent)>>)),
          RulesBody(Some(3), Absent, Absent, Some(<<ex(Wed1225, Some(0 - 1), Absent)>>)),
          RulesBody(Some(3), Absent, Absent, Some(<<ex(Wed1225, Some(2), Some(0))>>)) }

RulesNext ==
    \/ \E body \in ValidRawBodies \cup InvalidRawBodies :
           PutRules(body) /\ Shift /\ UNCHANGED <<boot, actFile, fsys, procs, drag>>
    \/ GetRules /\ Shift /\ UNCHANGED <<boot, actFile, fsys, procs, drag>>

SpecRules == Init /\ [][RulesNext]_vars

\* the schema's defaults
schemaDefault ==
    [defaultHoursPerDay |-> 8, workdays |-> <<1, 2, 3, 4, 5>>,
     staffOverrides |-> <<>>, exceptions |-> <<>>]

RuleFields == {"defaultHoursPerDay", "workdays", "staffOverrides", "exceptions"}

\* a GET that follows a PUT that was accepted
getAfterPut ==
    /\ req.op = "getRules"
    /\ last.req.op = "putRules"
    /\ last.resp.status = 200

hoursValid(h) == h >= 0

weekdaysValid(ws) == \A i \in DOMAIN ws : ws[i] \in 1..7

documentValid(doc) ==
    /\ hoursValid(doc.defaultHoursPerDay)
    /\ weekdaysValid(doc.workdays)
    /\ \A i \in DOMAIN doc.staffOverrides :
           LET o == doc.staffOverrides[i]
           IN  /\ o.staffId >= 1
               /\ hoursValid(o.hoursPerDay)
               /\ (o.workdays # Absent => weekdaysValid(o.workdays[1]))
    /\ \A i \in DOMAIN doc.exceptions :
           LET e == doc.exceptions[i]
           IN  /\ dateShaped(e.date)
               /\ (e.hours # Absent => hoursValid(e.hours[1]))
               /\ (e.staffId # Absent => e.staffId[1] >= 1)

\* a body is valid when it is a valid document once its missing fields are
\* given the defaults
bodyValid(body) ==
    documentValid([f \in RuleFields |->
                      IF body[f] = Absent THEN schemaDefault[f] ELSE body[f][1]])

----------------------------------------------------------------------------
(* Requests served one after the other on rules with repeated entries.      *)
(* Each step keeps the exchange before it in last.                          *)

\* rules documents that list a staff member, a date, or a staff member on a
\* date more than once
SequenceRules ==
    LET o16 == [staffId |-> 1, hoursPerDay |-> 6, workdays |-> Some(<<2, 6>>)]
        o14 == [staffId |-> 1, hoursPerDay |-> 4, workdays |-> Absent]
        o17 == [staffId |-> 1, hoursPerDay |-> 7, workdays |-> Some(<<1, 2, 3>>)]
        o23 == [staffId |-> 2, hoursPerDay |-> 3, workdays |-> Absent]
        g3  == [date |-> Tue0102, hours |-> Some(3), staffId |-> Absent]
        g1  == [date |-> Tue0102, hours |-> Some(1), staffId |-> Absent]
        g0  == [date |-> Fri0105, hours |-> Absent,  staffId |-> Absent]
        p2  == [date |-> Tue0102, hours |-> Some(2), staffId |-> Some(1)]
        p5  == [date |-> Tue0102, hours |-> Some(5), staffId |-> Some(1)]
        p0  == [date |-> Fri0105, hours |-> Some(0), staffId |-> Some(2)]
    IN  { defaultRules,
          [defaultHoursPerDay |-> 8, workdays |-> <<1, 2, 3, 4, 5>>,
           staffOverrides |-> <<>>, exceptions |-> <<p0, g3>>],
          [defaultHoursPerDay |-> 8, workdays |-> <<1, 2, 3, 4, 5>>,
           staffOverrides |-> <<o16, o14>>, exceptions |-> <<g3, p2, g1, p5>>],
          [defaultHoursPerDay |-> 5, workdays |-> <<1, 2, 5, 6>>,
           staffOverrides |-> <<o17, o23, o16, o14>>, exceptions |-> <<p5, g0, p2, p0>>] }

SequenceQueries ==
    { Query(Mon0101, Sun0107, "day"),
      Query(Mon0101, ISO(2024, 1, 8), "week"),
      Query(CrossFrom, Fri0105, "month") }

SequenceNext ==
    \/ \E body \in StaffBodies :
           PostStaff(body) /\ Shift /\ UNCHANGED <<boot, actFile, fsys, procs, drag>>
    \/ \E body \in AssignBodies :
           PostAssignment(body) /\ Shift /\ UNCHANGED <<boot, actFile, fsys, procs, drag>>
    \/ \E body \in SequenceRules :
           PutRules(RawRules(body)) /\ Shift /\ UNCHANGED <<boot, actFile, fsys, procs, drag>>
    \/ \E q \in SequenceQueries :
           Forecast(q) /\ Shift /\ UNCHANGED <<boot, actFile, fsys, procs, drag>>

SpecSequence == Init /\ [][SequenceNext]_vars

----------------------------------------------------------------------------
(* Demand and the exceptions *)

\* the exception lists put in place of the stored one: none, the stored one
\* without its first entry, with an entry more, with the hours of every entry
\* changed, and lists of other entries
AltExceptions(rules) ==
    LET pto  == [date |-> Tue0102, hours |-> Some(0), staffId |-> Some(1)]
        hol  == [date |-> Mon0101, hours |-> Absent, staffId |-> Absent]
        more == [date |-> Fri0105, hours |-> Some(9), staffId |-> Some(2)]
    IN  { <<>>, <<pto>>, <<hol>>, <<hol, pto, more>>,
          Append(rules.exceptions, pto),
          IF rules.exceptions = <<>> THEN <<>> ELSE Tail(rules.exceptions),
          [i \in DOMAIN rules.exceptions |->
              [rules.exceptions[i] EXCEPT
                  !.hours = Some(hoursOrZero(rules.exceptions[i]) + 1)]] }

\* the needed of a point under given per-day values: the sum over the days
\* of its bucket
neededOfPoint(p, nd) ==
    Sum([k \in DOMAIN days |->
            IF bucketKey(resp.body.bucket, days[k].date) = p.bucketStart
            THEN nd[k] ELSE 0])

\* C25: needed does not react to exceptions: with the stored exception list
\* replaced by any other (entries added, removed, changed, global or
\* staff-scoped) and everything else as it is, needed is what the forecast
\* returned, on every date and in every bucket.
C25_NeededIgnoresExceptions ==
    ForecastDone =>
        \A e \in AltExceptions(rulesFile) :
        \A alt \in {[rulesFile EXCEPT !.exceptions = e]} :
        \A L \in {Lookups(staffFile, alt)} :
        \A nd \in {[k \in DOMAIN days |->
                       neededOn(L, alt, assignFile, days[k].date)]} :
            /\ \A k \in DOMAIN days : nd[k] = days[k].needed
            /\ \A i \in DOMAIN resp.body.points :
                   resp.body.points[i].needed = neededOfPoint(resp.body.points[i], nd)

\* a staff member with an exception of 2 hours of their own on a date, under
\* an assignment over that date: their nominal hours are needed all the same
C25_Witness ==
    /\ ForecastDone
    /\ resp.body.bucket = "week"
    /\ \E j \in DOMAIN assignFile, k \in DOMAIN days :
           /\ spans(assignFile[j], days[k].date)
           /\ staffScoped(rulesFile, assignFile[j].staffId, days[k].date) # {}
           /\ days[k].needed >= nominalHours(rulesFile, assignFile[j].staffId)
           /\ nominalHours(rulesFile, assignFile[j].staffId)
                  > effectiveHours(rulesFile, assignFile[j].staffId, days[k].date)
    /\ \E i \in DOMAIN resp.body.points : resp.body.points[i].needed > 0

----------------------------------------------------------------------------
(* Repeated entries *)

\* the entries of s at the positions that satisfy keep
keepAt(s, keep(_)) ==
    LET tagged == [i \in DOMAIN s |-> [at |-> i, entry |-> s[i]]]
        kept   == SelectSeq(tagged, LAMBDA t : keep(t.at))
    IN  [i \in DOMAIN kept |-> kept[i].entry]

\* the rules with one entry per key: per staff member the last override, with
\* the workdays of the last override that lists workdays; per date the last
\* global exception; per date and staff member the last staff-scoped one
lastPerKey(rules) ==
    [rules EXCEPT
        !.staffOverrides =
            keepAt([i \in DOMAIN rules.staffOverrides |->
                       LET id == rules.staffOverrides[i].staffId
                       IN  [rules.staffOverrides[i] EXCEPT
                               !.workdays =
                                   IF workdayOverridesOf(rules, id) = {} THEN Absent
                                   ELSE rules.staffOverrides[
                                            Last(workdayOverridesOf(rules, id))].workdays]],
                   LAMBDA i : i = Last(overridesOf(rules, rules.staffOverrides[i].staffId))),
        !.exceptions =
            keepAt(rules.exceptions,
                   LAMBDA i : ~\E j \in DOMAIN rules.exceptions :
                                  /\ j > i
                                  /\ rules.exceptions[j].date = rules.exceptions[i].date
                                  /\ rules.exceptions[j].staffId = rules.exceptions[i].staffId)]

\* the rules list some key more than once, with different values
repeatedKeys(rules) ==
    /\ \E i, j \in DOMAIN rules.staffOverrides :
           /\ i < j
           /\ rules.staffOverrides[i].staffId = rules.staffOverrides[j].staffId
           /\ rules.staffOverrides[i].hoursPerDay # rules.staffOverrides[j].hoursPerDay
    /\ \E i, j \in DOMAIN rules.exceptions :
           /\ i < j
           /\ rules.exceptions[i].date = rules.exceptions[j].date
           /\ rules.exceptions[i].staffId = rules.exceptions[j].staffId
           /\ rules.exceptions[i].hours # rules.exceptions[j].hours

\* C26: of several entries for the same key the last listed decides: the
\* forecast is the one of the rules with, per staff member, the last override
\* (and the workdays of the last override that lists any), per date the last
\* global exception and per date and staff member the last staff-scoped
\* exception; and a member of the staff contributes one value to the
\* available of a date, that of the last listed entries.
C26_LastListedDecides ==
    ForecastDone =>
        /\ \A one \in {lastPerKey(rulesFile)} :
               /\ days = buildDays(staffFile, assignFile, one, fromOf, toOf)
               /\ resp.body.points = bucketize(days, resp.body.bucket)
        /\ Len(staffFile) = 1 =>
               \A k \in DOMAIN days :
                   days[k].available =
                       IF worksOn(rulesFile, staffFile[1].id, days[k].date)
                       THEN effectiveHours(rulesFile, staffFile[1].id, days[k].date)
                       ELSE 0

\* two staff members on Tuesday 2024-01-02 under rules that list two
\* overrides for staff 1 (6h, then 4h), two global exceptions (3h, then 1h)
\* and two exceptions of staff 1 (2h, then 5h) on that date: 5 + 1 available
C26_Witness ==
    /\ ForecastDone
    /\ repeatedKeys(rulesFile)
    /\ rulesFile.defaultHoursPerDay = 8
    /\ {staffFile[i].id : i \in DOMAIN staffFile} = {1, 2}
    /\ \E k \in DOMAIN days :
           /\ days[k].date = Tue0102
           /\ Cardinality(globalOn(rulesFile, Tue0102)) = 2
           /\ Cardinality(staffScoped(rulesFile, 1, Tue0102)) = 2
           /\ days[k].available = 6

----------------------------------------------------------------------------
(* The rules a forecast is computed from *)

\* the day rows and the points in service are those of the rules document
\* doc: per date, available summed over the staff who work that weekday,
\* needed summed over the assignments over the date; per point, the sums
\* over the days of its bucket
computedFrom(doc) ==
    /\ \A k \in DOMAIN days :
       \A d \in {days[k].date} :
           /\ days[k].available =
                  Sum([i \in DOMAIN staffFile |->
                          IF worksOn(doc, staffFile[i].id, d)
                          THEN effectiveHours(doc, staffFile[i].id, d) ELSE 0])
           /\ days[k].needed =
                  Sum([j \in DOMAIN assignFile |->
                          IF spans(assignFile[j], d)
                          THEN nominalHours(doc, assignFile[j].staffId) ELSE 0])
    /\ \A i \in DOMAIN resp.body.points :
       \A p \in {resp.body.points[i]} :
           /\ p.needed = neededOfPoint(p, [k \in DOMAIN days |-> days[k].needed])
           /\ p.available = neededOfPoint(p, [k \in DOMAIN days |-> days[k].available])

forecastAfterPut ==
    /\ ForecastDone
    /\ last.req.op = "putRules"
    /\ last.resp.status = 200

\* C22: every forecast is computed from the rules document stored when the
\* request is served, which is the document the latest PUT answered with 200
\* put there: a forecast right after such a PUT is computed from the
\* document that PUT answered, and between two PUTs no request changes the
\* stored document.
C22_ForecastFromLatestRules ==
    /\ [](forecastAfterPut => computedFrom(last.resp.body))
    /\ [](ForecastDone => computedFrom(rulesFile))
    /\ [][rulesFile' # rulesFile =>
              (req'.op = "putRules" /\ resp'.status = 200 /\ rulesFile' = resp'.body)]_vars

\* a forecast right after a PUT of a document under which the forecast is
\* not the one the default document gives
C22_Witness ==
    /\ forecastAfterPut
    /\ last.resp.body # defaultRules
    /\ computedFrom(last.resp.body)
    /\ ~computedFrom(defaultRules)
    /\ \E k \in DOMAIN days : days[k].available > 0 /\ days[k].needed > 0

----------------------------------------------------------------------------
(* Dates of the shape YYYY-MM-DD that name no day of the calendar *)

\* ranges around the end of February 2024 and of April 2024, and a month 13;
\* isoDate accepts every one of these texts
CalendarQueries ==
    { Query(ISO(2024, 2, 28), ISO(2024, 3, 1), "day"),
      Query(ISO(2024, 2, 30), ISO(2024, 3, 2), "day"),
      Query(ISO(2024, 2, 30), ISO(2024, 3, 3), "week"),
      Query(ISO(2024, 2, 28), ISO(2024, 2, 31), "day"),
      Query(ISO(2024, 4, 31), ISO(2024, 5, 2), "month"),
      Query(ISO(2024, 13, 1), ISO(2024, 13, 2), "day"),
      Query(ISO(2024, 13, 1), ISO(2024, 13, 2), "week") }

CalendarNext ==
    \/ \E body \in StaffBodies :
           PostStaff(body) /\ Shift /\ UNCHANGED <<boot, actFile, fsys, procs, drag>>
    \/ \E body \in DateAssignBodies :
           PostAssignment(body) /\ Shift /\ UNCHANGED <<boot, actFile, fsys, procs, drag>>
    \/ \E q \in CalendarQueries :
           Forecast(q) /\ Shift /\ UNCHANGED <<boot, actFile, fsys, procs, drag>>

SpecCalendar == Init /\ [][CalendarNext]_vars

daysInMonth(y, m) ==
    IF m = 2 THEN (IF isLeap(y) THEN 29 ELSE 28)
    ELSE IF m \in {4, 6, 9, 11} THEN 30 ELSE 31

\* the text names a day of the calendar
realDate(s) ==
    /\ dateShaped(s)
    /\ calMonth(s) \in 1..12
    /\ calDay(s) \in 1..daysInMonth(calYear(s), calMonth(s))

\* C27: every date of a forecast, of a day row or of a point, is a day of
\* the calendar, and the day rows are successive days of the calendar, none
\* skipped and none counted twice, also when from or to has the shape
\* YYYY-MM-DD and names no day.
C27_OnlyCalendarDates ==
    Answered =>
        /\ \A k \in DOMAIN days : realDate(days[k].date)
        /\ \A i \in DOMAIN resp.body.points : realDate(resp.body.points[i].bucketStart)
        /\ \A k \in DOMAIN days :
               k > 1 => dayNumber(days[k].date) = dayNumber(days[k - 1].date) + 1

----------------------------------------------------------------------------
(* Forecasts while a data file cannot be read *)

\* a capacityRules.json left in the data directory that parses as JSON and
\* fails capacityRulesSchema
UnreadableRules ==
    [defaultHoursPerDay |-> 0 - 1,
     workdays           |-> <<1, 2, 3, 4, 5>>,
     staffOverrides     |-> <<>>,
     exceptions         |-> <<>>]

\* the process starts on an empty data directory, or on one whose data files
\* exist, the rules file holding a document that does not validate
FailureInit ==
    \/ BootInit
    \/ /\ staffFile = <<[id |-> 1, name |-> "A"]>>
       /\ assignFile = <<>>
       /\ rulesFile = UnreadableRules
       /\ req = [op |-> "none"]
       /\ resp = [status |-> 0, body |-> [error |-> "none"]]
       /\ days = <<>>
       /\ reads = {}
       /\ disk = [f \in DataFiles |-> "written"]
       /\ boot = BootDone
       /\ last = NoExchange
       /\ actFile = <<>>
       /\ fsys = DataDirectory
       /\ procs = NoRequests
       /\ drag = NoDrag

FailureQueries ==
    { Query(Mon0101, Sun0107, "day"),
      Query(Mon0101, Sun0107, "week"),
      Query(Tue0102, Tue0102, "month"),
      Query(Sun0107, Mon0101, "day"),
      [from |-> Absent, to |-> Some(Sun0107), bucket |-> Absent] }

FailureNext ==
    \/ \E t \in Tasks : EnsureAccess(t)
    \/ \E t \in Tasks : EnsureOpen(t)
    \/ \E t \in Tasks : EnsureWrite(t)
    \/ \E q \in FailureQueries :
           Forecast(q) /\ Shift /\ UNCHANGED <<boot, actFile, fsys, procs, drag>>

SpecFailure == FailureInit /\ [][FailureNext]_vars

\* the request in service is a forecast whose query is accepted
acceptedQuery == isForecast /\ ~badQuery /\ ~laterFrom

\* one of the three data files cannot be read, or the stored rules document
\* is not one the schema accepts
unreadable ==
    \/ \E f \in DataFiles : disk[f] # "written"
    \/ ~documentValid(rulesFile)

\* C23: a forecast whose read of the staff, assignment or rules data fails,
\* or whose stored rules document does not validate, is answered 5xx without
\* points; and every forecast request ends with a 200 that carries the whole
\* series or with an error answer, never without an answer.
C23_FailedReadAnswered ==
    /\ [][(acceptedQuery' /\ unreadable) =>
              (resp'.status \in 500..599 /\ "points" \notin DOMAIN resp'.body)]_vars
    /\ [](isForecast =>
              \/ resp.status \in 400..599 /\ noPoints
              \/ resp.status = 200 /\ ~noPoints /\ Len(days) > 0)

----------------------------------------------------------------------------
(* Ids of the staff and of the assignments, one POST after the other *)

\* bodies without an id, with a small id, with an id that is no positive
\* integer, and with the largest integer every version of the schema takes
IdStaffBodies ==
    { [name |-> "A", id |-> i] : i \in {Absent, Some(1), Some(0), Some(MaxSafeInteger)} }

IdAssignBodies ==
    { [staffId |-> 1, projectId |-> 1, start |-> Mon0101, end |-> Fri0105, id |-> i] :
          i \in {Absent, Some(2), Some(0 - 1), Some(MaxSafeInteger)} }

IdsNext ==
    \/ \E body \in IdStaffBodies :
           /\ Len(staffFile) < MaxPosts
           /\ createStaff(body)
           /\ UNCHANGED <<boot, last, actFile, fsys, procs, drag>>
    \/ \E body \in IdAssignBodies :
           /\ Len(assignFile) < MaxPosts
           /\ createAssignment(body)
           /\ UNCHANGED <<boot, last, actFile, fsys, procs, drag>>

SpecIds == Init /\ [][IdsNext]_vars

\* the ids of the records are positive and no two records share one
distinctIds(items) ==
    /\ \A i \in DOMAIN items : items[i].id >= 1
    /\ \A i, j \in DOMAIN items : i # j => items[i].id # items[j].id

\* the POST being answered suggests an id one of the records has
suggestsUsed(op, items) ==
    /\ req'.op = op
    /\ Has(req'.body.id)
    /\ \E i \in DOMAIN items : items[i].id = Val(req'.body.id)

\* C24: after any sequence of POST /api/staff and POST /api/assignments
\* served one after the other, with or without a suggested id, the stored
\* staff ids are pairwise distinct positive integers and so are the stored
\* assignment ids; a POST that suggests an id in use is answered 409 and
\* leaves the collection as it was.
C24_IdsDistinct ==
    /\ [](distinctIds(staffFile) /\ distinctIds(assignFile))
    /\ [][suggestsUsed("postStaff", staffFile) =>
              (resp'.status = 409 /\ staffFile' = staffFile)]_vars
    /\ [][suggestsUsed("postAssignment", assignFile) =>
              (resp'.status = 409 /\ assignFile' = assignFile)]_vars

----------------------------------------------------------------------------
(* The activities: POST, PUT and DELETE on /api/activities *)

\* (a.projectId - b.projectId) || (a.id - b.id)
actBefore(a, b) ==
    IF a.projectId # b.projectId THEN a.projectId < b.projectId ELSE a.id < b.id

RECURSIVE insertAct(_, _)
insertAct(sorted, x) ==
    IF sorted = <<>> THEN <<x>>
    ELSE IF actBefore(x, Head(sorted)) THEN <<x>> \o sorted
    ELSE <<Head(sorted)>> \o insertAct(Tail(sorted), x)

\* getAll of the activities: items.sort(...)
RECURSIVE sortActs(_)
sortActs(items) ==
    IF items = <<>> THEN <<>>
    ELSE insertAct(sortActs(SubSeq(items, 1, Len(items) - 1)), items[Len(items)])

\* uuid(): an identifier no stored activity has
uuid(items) ==
    CHOOSE u \in 1..(Len(items) + 1) : \A i \in DOMAIN items : items[i].uid # u

\* items.filter(a => a.projectId === payload.projectId)
\*      .reduce((n, a) => Math.max(n, a.id), 0)
RECURSIVE maxIdIn(_, _)
maxIdIn(items, projectId) ==
    IF items = <<>> THEN 0
    ELSE LET n == maxIdIn(Tail(items), projectId)
         IN  IF Head(items).projectId = projectId /\ Head(items).id > n
             THEN Head(items).id ELSE n

\* activityCreateSchema, for the fields the model sends
activityCreateOK(body) ==
    /\ posInt(body.projectId)
    /\ body.description # ""
    /\ Has(body.id) => posInt(Val(body.id))

\* POST /api/activities, while the collection and the ids of the project are
\* below the bounds of the model
PostActivity(body) ==
    /\ Len(actFile) < MaxActs
    /\ maxIdIn(actFile, body.projectId) < MaxActId
    /\ req' = [op |-> "postActivity", body |-> body]
    /\ IF ~activityCreateOK(body)
       THEN /\ resp' = [status |-> 400, body |-> [error |-> "validation"]]
            /\ UNCHANGED actFile
       ELSE LET items == sortActs(actFile)
            IN  IF /\ Has(body.id)
                   /\ \E i \in DOMAIN items :
                          items[i].projectId = body.projectId /\ items[i].id = Val(body.id)
                THEN /\ resp' = [status |-> 409,
                                 body   |-> [error |-> "id already used in this project"]]
                     /\ UNCHANGED actFile
                ELSE LET newItem == [uid         |-> uuid(items),
                                     id          |-> IF Has(body.id) THEN Val(body.id)
                                                     ELSE plusOne(maxIdIn(items, body.projectId)),
                                     projectId   |-> body.projectId,
                                     description |-> body.description]
                     IN  /\ actFile' = Append(items, newItem)
                         /\ resp' = [status |-> 201, body |-> newItem]

\* { ...items[idx], ...req.body, uid }
mergeActivity(item, body) ==
    [uid         |-> item.uid,
     id          |-> IF Has(body.id) THEN Val(body.id) ELSE item.id,
     projectId   |-> IF Has(body.projectId) THEN Val(body.projectId) ELSE item.projectId,
     description |-> IF Has(body.description) THEN Val(body.description)
                     ELSE item.description]

\* activitySchema, for the fields the model keeps
activityOK(a) == posInt(a.projectId) /\ posInt(a.id) /\ a.description # ""

\* PUT /api/activities/:uid.  The id is tested, and its uniqueness inside the
\* project, only when the body carries an id.
PutActivity(uid, body) ==
    /\ req' = [op |-> "putActivity", uid |-> uid, body |-> body]
    /\ LET items == sortActs(actFile)
           found == {i \in DOMAIN items : items[i].uid = uid}
       IN  IF found = {}
           THEN /\ resp' = [status |-> 404, body |-> [error |-> "Not found"]]
                /\ UNCHANGED actFile
           ELSE LET idx    == CHOOSE i \in found : \A j \in found : i <= j
                    merged == mergeActivity(items[idx], body)
                IN  IF Has(body.id) /\ ~posInt(Val(body.id))
                    THEN /\ resp' = [status |-> 400, body |-> [error |-> "Invalid id"]]
                         /\ UNCHANGED actFile
                    ELSE IF /\ Has(body.id)
                            /\ \E i \in DOMAIN items :
                                   /\ items[i].projectId = merged.projectId
                                   /\ items[i].id = merged.id
                                   /\ items[i].uid # uid
                    THEN /\ resp' = [status |-> 409,
                                     body   |-> [error |-> "id already used in this project"]]
                         /\ UNCHANGED actFile
                    ELSE IF ~activityOK(merged)
                    THEN /\ resp' = [status |-> 400, body |-> [error |-> "validation"]]
                         /\ UNCHANGED actFile
                    ELSE /\ actFile' = [items EXCEPT ![idx] = merged]
                         /\ resp' = [status |-> 200, body |-> merged]

\* DELETE /api/activities/:uid
DeleteActivity(uid) ==
    /\ req' = [op |-> "deleteActivity", uid |-> uid]
    /\ LET items == sortActs(actFile)
           next  == SelectSeq(items, LAMBDA a : a.uid # uid)
       IN  IF Len(next) = Len(items)
           THEN /\ resp' = [status |-> 404, body |-> [error |-> "Not found"]]
                /\ UNCHANGED actFile
           ELSE /\ actFile' = next
                /\ resp' = [status |-> 204, body |-> [error |-> "none"]]

ActivityBodies ==
    { [projectId |-> p, description |-> "d", id |-> i] :
          p \in {1, 2}, i \in {Absent, Some(1), Some(2)} }

ActivityPatches ==
    { [projectId |-> p, description |-> Absent, id |-> i] :
          p \in {Absent, Some(1), Some(2), Some(0)},
          i \in {Absent, Some(1), Some(2), Some(0)} }

Uids == 1..(MaxActs + 1)

ActivitiesNext ==
    \/ \E body \in ActivityBodies :
           /\ PostActivity(body)
           /\ UNCHANGED <<staffFile, assignFile, rulesFile, days, reads, disk, boot, last,
                          fsys, procs, drag>>
    \/ \E uid \in Uids, body \in ActivityPatches :
           /\ PutActivity(uid, body)
           /\ UNCHANGED <<staffFile, assignFile, rulesFile, days, reads, disk, boot, last,
                          fsys, procs, drag>>
    \/ \E uid \in Uids :
           /\ DeleteActivity(uid)
           /\ UNCHANGED <<staffFile, assignFile, rulesFile, days, reads, disk, boot, last,
                          fsys, procs, drag>>

SpecActivities == Init /\ [][ActivitiesNext]_vars

\* no two stored activities have the same projectId and the same id
distinctInProject(items) ==
    \A i, j \in DOMAIN items :
        i # j => ~(items[i].projectId = items[j].projectId /\ items[i].id = items[j].id)

\* the request being answered is a POST whose id is used in its project, or
\* a PUT after which the activity would have the projectId and the id of
\* another stored activity
wouldRepeat ==
    \/ /\ req'.op = "postActivity"
       /\ Has(req'.body.id)
       /\ \E i \in DOMAIN actFile :
              /\ actFile[i].projectId = req'.body.projectId
              /\ actFile[i].id = Val(req'.body.id)
    \/ /\ req'.op = "putActivity"
       /\ \E i, j \in DOMAIN actFile :
              /\ actFile[i].uid = req'.uid
              /\ actFile[j].uid # req'.uid
              /\ actFile[j].projectId = mergeActivity(actFile[i], req'.body).projectId
              /\ actFile[j].id = mergeActivity(actFile[i], req'.body).id

\* C29: after any sequence of POST, PUT and DELETE on /api/activities no two
\* stored activities have the same (projectId, id); a POST or a PUT that
\* would give an activity an id used in its project is answered 409 and
\* changes nothing, a PUT that changes only projectId included.
C29_ActivityIdsDistinct ==
    /\ [](distinctInProject(actFile))
    /\ [][wouldRepeat => (resp'.status = 409 /\ actFile' = actFile)]_vars

----------------------------------------------------------------------------
(* The staff plan: dragging an assignment bar (client, StaffPlan.tsx) *)

\* addDays of the client: parseISO, setDate(getDate() + days), toISO, the
\* same three helpers as the server's, character for character
addDays(iso, n) == toISO(parseISO(iso) + n)

\* what getAssignments returned
LoadedBars ==
    << [id |-> 1, staffId |-> 1, projectId |-> 1, start |-> Mon0101, end |-> Fri0105],
       [id |-> 2, staffId |-> 1, projectId |-> 1, start |-> Tue0102, end |-> Tue0102],
       [id |-> 3, staffId |-> 2, projectId |-> 1,
        start |-> ISO(2024, 2, 28), end |-> ISO(2024, 2, 29)] >>

\* deltaUnits * uDays for the units of a day, a week and a month scale
DeltaDays == {0 - 7, 0 - 1, 0, 1, 30}

\* useEffect: setAssignments(a) once getAssignments has answered
Loaded ==
    /\ drag.bars = <<>>
    /\ drag' = [drag EXCEPT !.bars = LoadedBars]

\* onPointerDown(e, mode) on the bar of assignment a, by a user who waits
\* for "Saving assignment ..." to go before the next drag
onPointerDown(i, mode) ==
    /\ drag.state = Absent
    /\ drag.saving = Absent
    /\ i \in DOMAIN drag.bars
    /\ drag' = [drag EXCEPT !.state =
                   Some([id           |-> drag.bars[i].id,
                         mode         |-> mode,
                         origStart    |-> drag.bars[i].start,
                         origEnd      |-> drag.bars[i].end,
                         origStaffId  |-> drag.bars[i].staffId,
                         hoverStaffId |-> drag.bars[i].staffId,
                         deltaDays    |-> 0])]

\* onMove: the day offset of the pointer and, for a move, the row under it
onMove(deltaDays, row) ==
    /\ drag.state # Absent
    /\ LET d == Val(drag.state)
       IN  drag' = [drag EXCEPT !.state =
                       Some([d EXCEPT !.deltaDays = deltaDays,
                                      !.hoverStaffId = IF d.mode = "move" THEN row
                                                       ELSE d.origStaffId])]

\* the patch onUp builds from the drag state d
patchOf(d) ==
    IF d.mode = "move"
    THEN [start   |-> Some(addDays(d.origStart, d.deltaDays)),
          end     |-> Some(addDays(d.origEnd, d.deltaDays)),
          staffId |-> IF d.hoverStaffId # d.origStaffId THEN Some(d.hoverStaffId)
                      ELSE Absent]
    ELSE IF d.mode = "left"
    THEN LET nextStart == addDays(d.origStart, d.deltaDays)
             minStart  == addDays(d.origEnd, 0 - 1)
         IN  [start   |-> Some(IF StrLE(nextStart, minStart) THEN nextStart ELSE minStart),
              end     |-> Absent,
              staffId |-> Absent]
    ELSE LET nextEnd == addDays(d.origEnd, d.deltaDays)
             minEnd  == addDays(d.origStart, 1)
         IN  [start   |-> Absent,
              end     |-> Some(IF StrLE(minEnd, nextEnd) THEN nextEnd ELSE minEnd),
              staffId |-> Absent]

\* onUp, to its await: setDrag(null), the patch, setSaving(d.id) and the PUT
\* sent by updateAssignment(d.id, patch)
onUp ==
    /\ drag.state # Absent
    /\ LET d == Val(drag.state)
       IN  drag' = [drag EXCEPT
                       !.state = Absent,
                       !.saving = Some(d.id),
                       !.sent = Some([id |-> d.id, patch |-> patchOf(d), gesture |-> d])]

\* { ...items[idx], ...req.body, id }: the assignment the server answers with
patched(a, patch) ==
    [a EXCEPT !.start = IF Has(patch.start) THEN Val(patch.start) ELSE @,
              !.end = IF Has(patch.end) THEN Val(patch.end) ELSE @,
              !.staffId = IF Has(patch.staffId) THEN Val(patch.staffId) ELSE @]

\* onUp, after its await: the server has answered with the updated
\* assignment, which replaces the bar, or the request has failed and the bar
\* stays; then setSaving(null), and the request is no longer in flight
onUpAnswered ==
    /\ drag.saving # Absent
    /\ \/ /\ drag.edits < MaxEdits
          /\ drag' = [drag EXCEPT
                         !.saving = Absent,
                         !.sent = Absent,
                         !.edits = @ + 1,
                         !.bars = [i \in DOMAIN drag.bars |->
                                      IF drag.bars[i].id = Val(drag.sent).id
                                      THEN patched(drag.bars[i], Val(drag.sent).patch)
                                      ELSE drag.bars[i]]]
       \/ drag' = [drag EXCEPT !.saving = Absent, !.sent = Absent]

DragNext ==
    \/ Loaded /\ UNCHANGED <<staffFile, assignFile, rulesFile, req, resp, days, reads,
                                 disk, boot, last, actFile, fsys, procs>>
    \/ \E i \in DOMAIN LoadedBars, mode \in {"move", "left", "right"} :
           onPointerDown(i, mode)
               /\ UNCHANGED <<staffFile, assignFile, rulesFile, req, resp, days, reads,
                                 disk, boot, last, actFile, fsys, procs>>
    \/ \E deltaDays \in DeltaDays, row \in {1, 2} :
           onMove(deltaDays, row)
               /\ UNCHANGED <<staffFile, assignFile, rulesFile, req, resp, days, reads,
                                 disk, boot, last, actFile, fsys, procs>>
    \/ onUp /\ UNCHANGED <<staffFile, assignFile, rulesFile, req, resp, days, reads,
                                 disk, boot, last, actFile, fsys, procs>>
    \/ onUpAnswered
           /\ UNCHANGED <<staffFile, assignFile, rulesFile, req, resp, days, reads,
                                 disk, boot, last, actFile, fsys, procs>>

SpecDrag == Init /\ [][DragNext]_vars

\* the start, end and staffId of the assignment after the patch of the
\* release, and before the gesture
releasedStart == IF Has(Val(drag.sent).patch.start) THEN Val(Val(drag.sent).patch.start)
                 ELSE Val(drag.sent).gesture.origStart

releasedEnd == IF Has(Val(drag.sent).patch.end) THEN Val(Val(drag.sent).patch.end)
               ELSE Val(drag.sent).gesture.origEnd

releasedStaffId == IF Has(Val(drag.sent).patch.staffId) THEN Val(Val(drag.sent).patch.staffId)
                   ELSE Val(drag.sent).gesture.origStaffId

\* C30: a release never gives an assignment a start later than its end, and
\* a release with a day offset of 0 on the row of the assignment leaves its
\* start, end and staffId as they were, in every mode and also for an
\* assignment of one day.
C30_ReleaseKeepsOrder ==
    drag.sent # Absent =>
        LET g == Val(drag.sent).gesture
        IN  /\ calNum(releasedStart) <= calNum(releasedEnd)
            /\ (g.deltaDays = 0 /\ g.hoverStaffId = g.origStaffId) =>
                   /\ releasedStart = g.origStart
                   /\ releasedEnd = g.origEnd
                   /\ releasedStaffId = g.origStaffId

----------------------------------------------------------------------------
(* The data directory under concurrent requests.  fsys.dir gives the inode *)
(* behind the data file ("file") and behind its temporary file ("tmp"),    *)
(* 0 for a name that does not exist; fsys.node[i] is what inode i holds: a  *)
(* sequence of pieces, each the bytes from..to of the JSON text of a value. *)
(* Every await of writeJson is a step of its own, and between two steps of  *)
(* one request the steps of the other may run.                              *)

\* the length of "[" or "{", the items or members of lengths lens, each on a
\* line of its own indented by k + 2, and the closing bracket indented by k
blockLen(k, lens) ==
    IF lens = <<>> THEN 2
    ELSE 1 + Sum([i \in DOMAIN lens |-> 1 + (k + 2) + lens[i]]) + (Len(lens) - 1) + 1 + k + 1

\* JSON.stringify(data, null, 2) of a rules document: the value and the
\* length of its text.  A member is its key in quotes, ": " and its value;
\* a member that is undefined is left out.
stringifyRules(data) ==
    LET num(n) == Len(DecStr(n))
        member(key, len) == Len(key) + 4 + len
        numbers(k, ns) == blockLen(k, [i \in DOMAIN ns |-> num(ns[i])])
        override(o) ==
            blockLen(4, << member("staffId", num(o.staffId)),
                           member("hoursPerDay", num(o.hoursPerDay)) >>
                        \o (IF Has(o.workdays)
                            THEN << member("workdays", numbers(6, Val(o.workdays))) >>
                            ELSE <<>>))
        exception(e) ==
            blockLen(4, << member("date", Len(e.date) + 2) >>
                        \o (IF Has(e.hours) THEN << member("hours", num(Val(e.hours))) >>
                            ELSE <<>>)
                        \o (IF Has(e.staffId) THEN << member("staffId", num(Val(e.staffId))) >>
                            ELSE <<>>))
    IN  [of  |-> data,
         len |-> blockLen(0,
                    << member("defaultHoursPerDay", num(data.defaultHoursPerDay)),
                       member("workdays", numbers(2, data.workdays)),
                       member("staffOverrides",
                              blockLen(2, [i \in DOMAIN data.staffOverrides |->
                                              override(data.staffOverrides[i])])),
                       member("exceptions",
                              blockLen(2, [i \in DOMAIN data.exceptions |->
                                              exception(data.exceptions[i])])) >>)]

\* what an inode holds after the bytes of text are written at its start: the
\* text, and behind it what the inode held beyond the length of the text
written(content, text) ==
    LET RECURSIVE beyond(_, _)
        beyond(c, n) ==
            IF c = <<>> THEN <<>>
            ELSE LET l == Head(c).to - Head(c).from + 1
                 IN  IF l <= n THEN beyond(Tail(c), n - l)
                     ELSE <<[Head(c) EXCEPT !.from = @ + n]>> \o Tail(c)
    IN  <<[of |-> text.of, len |-> text.len, from |-> 1, to |-> text.len]>>
            \o beyond(content, text.len)

\* readJson: JSON.parse gives a value for the whole text of a value and
\* throws for an empty file, for a part of a text and for a text with more
\* behind it; readFile throws for a file that does not exist
readable(fs) ==
    /\ fs.dir["file"] # 0
    /\ LET content == fs.node[fs.dir["file"]]
       IN  Len(content) = 1 /\ content[1].from = 1 /\ content[1].to = content[1].len

\* ensureDataFile at start-up: fs.writeFile(filePath, JSON.stringify(defaultData))
\* for a file that does not exist
ensureDataFile(text) ==
    /\ fsys.dir["file"] = 0
    /\ fsys' = [dir  |-> [fsys.dir EXCEPT !["file"] = Len(fsys.node) + 1],
                node |-> Append(fsys.node, written(<<>>, text))]
    /\ UNCHANGED procs

\* writeJson, fs.writeFile(tmp, ...): open(tmp, "w") creates the temporary
\* file or empties the one that is there
writeJsonOpen(p) ==
    /\ procs[p].pc = "open"
    /\ IF fsys.dir["tmp"] = 0
       THEN /\ fsys' = [dir  |-> [fsys.dir EXCEPT !["tmp"] = Len(fsys.node) + 1],
                        node |-> Append(fsys.node, <<>>)]
            /\ procs' = [procs EXCEPT ![p].pc = "write", ![p].fd = Len(fsys.node) + 1]
       ELSE /\ fsys' = [fsys EXCEPT !.node[fsys.dir["tmp"]] = <<>>]
            /\ procs' = [procs EXCEPT ![p].pc = "write", ![p].fd = fsys.dir["tmp"]]

\* writeJson, fs.writeFile(tmp, ...): write the text through the open file
\* from position 0, and close
writeJsonWrite(p) ==
    /\ procs[p].pc = "write"
    /\ fsys' = [fsys EXCEPT !.node[procs[p].fd] = written(@, procs[p].data)]
    /\ procs' = [procs EXCEPT ![p].pc = "rename"]

\* writeJson, fs.rename(tmp, filePath), and the answer of the handler behind
\* it.  rename throws ENOENT when the temporary file is gone; nothing in the
\* async handler catches that.
writeJsonRename(p) ==
    /\ procs[p].pc = "rename"
    /\ IF fsys.dir["tmp"] = 0
       THEN /\ \E status \in {500, 0} : procs' = [procs EXCEPT ![p].pc = "done",
                                                               ![p].status = status]
            /\ UNCHANGED fsys
       ELSE /\ fsys' = [fsys EXCEPT !.dir = [file |-> fsys.dir["tmp"], tmp |-> 0]]
            /\ procs' = [procs EXCEPT ![p].pc = "done", ![p].status = procs[p].ok]

\* PUT /api/capacity/rules up to its await of writeJson
PutStart(p, body) ==
    /\ procs[p].pc = "idle"
    /\ procs' = [procs EXCEPT ![p] =
                    IF ~capacityRulesOK(body)
                    THEN [pc |-> "done", body |-> body, data |-> Absent, fd |-> 0,
                          ok |-> 200, status |-> 400]
                    ELSE [pc |-> "open", body |-> body,
                          data |-> stringifyRules(capacityRulesData(body)), fd |-> 0,
                          ok |-> 200, status |-> 0]]
    /\ UNCHANGED fsys

\* three bodies whose texts differ in length, and one the schema refuses
PutBodies ==
    { RulesBody(Absent, Absent, Absent, Absent),
      RulesBody(Some(6), Some(<<1, 2, 3>>), Absent,
                Some(<<[date |-> Wed1225, hours |-> Absent, staffId |-> Absent]>>)),
      RulesBody(Some(10), Some(<<>>), Absent, Absent),
      RulesBody(Some(0 - 1), Absent, Absent, Absent) }

PutNext ==
    \/ ensureDataFile(stringifyRules(defaultRules))
           /\ UNCHANGED <<staffFile, assignFile, rulesFile, req, resp, days, reads,
                                 disk, boot, last, actFile, drag>>
    \/ \E p \in Requests, body \in PutBodies :
           fsys.dir["file"] # 0 /\ PutStart(p, body)
               /\ UNCHANGED <<staffFile, assignFile, rulesFile, req, resp, days, reads,
                                 disk, boot, last, actFile, drag>>
    \/ \E p \in Requests :
           writeJsonOpen(p)
               /\ UNCHANGED <<staffFile, assignFile, rulesFile, req, resp, days, reads,
                                 disk, boot, last, actFile, drag>>
    \/ \E p \in Requests :
           writeJsonWrite(p)
               /\ UNCHANGED <<staffFile, assignFile, rulesFile, req, resp, days, reads,
                                 disk, boot, last, actFile, drag>>
    \/ \E p \in Requests :
           writeJsonRename(p)
               /\ UNCHANGED <<staffFile, assignFile, rulesFile, req, resp, days, reads,
                                 disk, boot, last, actFile, drag>>

SpecPut == Init /\ [][PutNext]_vars

\* both requests carried a valid body and both are over
bothPut ==
    \A p \in Requests : procs[p].pc = "done" /\ capacityRulesOK(procs[p].body)

\* C21: when two PUT /capacity/rules requests with valid bodies A and B have
\* run concurrently, in whatever order their steps were taken, both are
\* answered 200 and the rules file holds the whole text of A or the whole
\* text of B, not a mixture, not a part and not nothing.
C21_BothStoredWhole ==
    bothPut =>
        /\ \A p \in Requests : procs[p].status = 200
        /\ readable(fsys)
        /\ \E p \in Requests : fsys.node[fsys.dir["file"]][1].of = procs[p].data.of

----------------------------------------------------------------------------
(* Two POST /api/staff requests in flight: each reads the collection, adds  *)
(* its record and writes the collection back through writeJson              *)

\* JSON.stringify(items, null, 2) of a staff collection
stringifyStaff(items) ==
    [of  |-> items,
     len |-> blockLen(0, [i \in DOMAIN items |->
                blockLen(2, << 2 + 4 + Len(DecStr(items[i].id)),
                               4 + 4 + Len(items[i].name) + 2 >>)])]

\* POST /api/staff up to its await of getAll
PostStart(p, body) ==
    /\ procs[p].pc = "idle"
    /\ procs' = [procs EXCEPT ![p] =
                    [pc |-> IF staffCreateOK(body) THEN "read" ELSE "done",
                     body |-> body, data |-> Absent, fd |-> 0, ok |-> 201,
                     status |-> IF staffCreateOK(body) THEN 0 ELSE 400,
                     next |-> Absent, early |-> FALSE]]
    /\ UNCHANGED fsys

\* POST /api/staff from the answer of getAll to its await of saveAll: the id,
\* the new record pushed onto what was read.  early notes that the other
\* request had not started to write when this one read.
PostRead(p) ==
    /\ procs[p].pc = "read"
    /\ UNCHANGED fsys
    /\ IF ~readable(fsys)
       THEN \E status \in {500, 0} : procs' = [procs EXCEPT ![p].pc = "done",
                                                            ![p].status = status]
       ELSE LET items == sortById(fsys.node[fsys.dir["file"]][1].of)
                body  == procs[p].body
            IN  IF idTaken(items, body.id)
                THEN procs' = [procs EXCEPT ![p].pc = "done", ![p].status = 409]
                ELSE LET next == [id |-> nextId(items, body.id), name |-> body.name]
                     IN  procs' = [procs EXCEPT
                                      ![p].pc = "open",
                                      ![p].next = Some(next),
                                      ![p].data = stringifyStaff(Append(items, next)),
                                      ![p].early = \A q \in Requests \ {p} :
                                                      procs[q].pc \in {"idle", "read", "open"}]

PostNext ==
    \/ ensureDataFile(stringifyStaff(<<>>))
           /\ UNCHANGED <<staffFile, assignFile, rulesFile, req, resp, days, reads,
                                 disk, boot, last, actFile, drag>>
    \/ \E p \in Requests,
          body \in { [name |-> "A", id |-> Absent], [name |-> "Bea", id |-> Absent],
                     [name |-> "C", id |-> Some(1)], [name |-> "D", id |-> Some(2)],
                     [name |-> "", id |-> Absent] } :
           fsys.dir["file"] # 0 /\ PostStart(p, body)
               /\ UNCHANGED <<staffFile, assignFile, rulesFile, req, resp, days, reads,
                                 disk, boot, last, actFile, drag>>
    \/ \E p \in Requests :
           PostRead(p)
               /\ UNCHANGED <<staffFile, assignFile, rulesFile, req, resp, days, reads,
                                 disk, boot, last, actFile, drag>>
    \/ \E p \in Requests :
           writeJsonOpen(p)
               /\ UNCHANGED <<staffFile, assignFile, rulesFile, req, resp, days, reads,
                                 disk, boot, last, actFile, drag>>
    \/ \E p \in Requests :
           writeJsonWrite(p)
               /\ UNCHANGED <<staffFile, assignFile, rulesFile, req, resp, days, reads,
                                 disk, boot, last, actFile, drag>>
    \/ \E p \in Requests :
           writeJsonRename(p)
               /\ UNCHANGED <<staffFile, assignFile, rulesFile, req, resp, days, reads,
                                 disk, boot, last, actFile, drag>>

SpecPost == Init /\ [][PostNext]_vars

\* both requests are over, both were answered 201, and each had read the
\* file before the other started to write
bothCreated ==
    \A p \in Requests :
        procs[p].pc = "done" /\ procs[p].status = 201 /\ procs[p].early

\* C28: when two POST /api/staff requests have both read the file before
\* either wrote it and both are answered 201, the stored collection holds
\* both new records and their ids differ.
C28_NoRecordLost ==
    bothCreated =>
        /\ readable(fsys)
        /\ \A p \in Requests :
               \E i \in DOMAIN fsys.node[fsys.dir["file"]][1].of :
                   fsys.node[fsys.dir["file"]][1].of[i] = Val(procs[p].next)
        /\ Val(procs[1].next).id # Val(procs[2].next).id

====
